---- MODULE Spec2Model ----
(***************************************************************************)
(* A model of mvsnet/preprocess.py and mvsnet/test.py: camera calibration  *)
(* parsing (load_cam), the camera and image transforms (scale_camera,      *)
(* scale_image, scale_mvs_input, crop_mvs_input, scale_mvs_camera), the    *)
(* PFM codec (write_pfm, load_pfm) and the inference generator             *)
(* (MVSGenerator.__iter__).                                                *)
(*                                                                         *)
(* Floating-point numbers are modelled as exact rationals <<n, d>> with    *)
(* d > 0 in lowest terms.  Python objects that the code mutates or shares  *)
(* (ndarray cameras, lists) live in heaps and are referred to by id.       *)
(***************************************************************************)
EXTENDS Integers, Sequences, FiniteSets, TLC

VARIABLES
    \* ---- shared object heaps -------------------------------------------
    arrays,       \* heap of 2x4x4 camera ndarrays, id = index
    lists,        \* heap of Python list objects, id = index
    FLAGS,        \* tf.app.flags.FLAGS, the process-wide configuration
    py,           \* major version of the interpreter running the code
    \* ---- load_cam / scale_camera call harness ---------------------------
    camWords,     \* the tokens of the calibration file, file.read().split()
    camMaxD,      \* the max_d argument of load_cam (0 stands for None)
    camExc,       \* "pending", "none", or the exception load_cam raised
    camLog,       \* the calls made so far, with a snapshot of their input
    \* ---- write_pfm / load_pfm call harness ------------------------------
    pfmImage,     \* the ndarray handed to write_pfm
    pfmScale,     \* the scale argument of write_pfm
    pfmHost,      \* sys.byteorder of the writing process
    pfmFile,      \* the bytes of the file, as a record of its parts
    pfmRead,      \* what load_pfm returned
    pfmPc,        \* "init", "written", "read", or the exception raised
    \* ---- MVSGenerator.__iter__ ------------------------------------------
    sample_list,  \* self.sample_list
    pc,           \* position of the generator
    cursor,       \* index into sample_list of the sample being built
    locals,       \* the local names of __iter__ (list ids, scale, index)
    counter,      \* self.counter
    emitted,      \* what the last yield handed out
    \* ---- mvsnet_pipeline: the dataset and the inference loop -------------
    buffer,       \* the batches the prefetch stage holds for the consumer
    pushed,       \* number of batches the dataset took from the generator
    step,         \* iterations of the inference loop completed so far
    output_folder,\* the names of the files in dense_folder/depths_mvsnet
    fetched,      \* the result sess.run returned, until it is saved
    \* ---- loss.py call harness -------------------------------------------
    lossGt,       \* y_true / gt_depth_image, [batch][pixel]
    lossPredA,    \* a prediction, [batch][pixel]
    lossPredB,    \* a second prediction for the same ground truth
    lossInterval, \* the interval tensor, one entry per batch sample
    lossCall,     \* the function called and its scalar arguments
    lossOutA,     \* what the call returned (or raised) on lossPredA
    lossOutB,     \* what the call returned (or raised) on lossPredB
    \* ---- crop_mvs_input called with a depth map -------------------------
    cropDepth,    \* the ground-truth depth map handed to the call
    cropOut       \* what the call returned for it (exc, depth_image)

heapVars == <<arrays, lists, FLAGS, py>>
camVars == <<camWords, camMaxD, camExc, camLog>>
pfmVars == <<pfmImage, pfmScale, pfmHost, pfmFile, pfmRead, pfmPc>>
genVars == <<sample_list, pc, cursor, locals, counter, emitted>>
pipeVars == <<buffer, pushed, step, output_folder, fetched>>
lossVars == <<lossGt, lossPredA, lossPredB, lossInterval, lossCall,
              lossOutA, lossOutB>>
cropVars == <<cropDepth, cropOut>>
vars == <<arrays, lists, FLAGS, py, camWords, camMaxD, camExc, camLog,
          pfmImage, pfmScale, pfmHost, pfmFile, pfmRead, pfmPc,
          sample_list, pc, cursor, locals, counter, emitted,
          buffer, pushed, step, output_folder, fetched,
          lossGt, lossPredA, lossPredB, lossInterval, lossCall,
          lossOutA, lossOutB, cropDepth, cropOut>>

(***************************************************************************)
(* Rational arithmetic (the model of Python floats).                       *)
(***************************************************************************)
Abs(x) == IF x < 0 THEN -x ELSE x

RECURSIVE GCD(_, _)
GCD(a, b) == IF b = 0 THEN a ELSE GCD(b, a % b)

Rat(n, d) ==
    LET g == GCD(Abs(n), Abs(d))
        s == IF d < 0 THEN -1 ELSE 1
    IN  <<(s * n) \div g, (s * d) \div g>>

RInt(k) == <<k, 1>>
RZero == <<0, 1>>
RMul(x, y) == Rat(x[1] * y[1], x[2] * y[2])
RAdd(x, y) == Rat(x[1] * y[2] + y[1] * x[2], x[2] * y[2])
RSub(x, y) == Rat(x[1] * y[2] - y[1] * x[2], x[2] * y[2])
RNeg(x) == <<-x[1], x[2]>>
RLt(x, y) == x[1] * y[2] < y[1] * x[2]
RLe(x, y) == x[1] * y[2] <= y[1] * x[2]
RGt(x, y) == RLt(y, x)
RGe(x, y) == RLe(y, x)
RMax(x, y) == IF RGt(y, x) THEN y ELSE x

\* floor and ceiling of a rational (\div rounds toward minus infinity)
RFloor(x) == x[1] \div x[2]
RCeil(x) == -((-x[1]) \div x[2])

Min(a, b) == IF a < b THEN a ELSE b
Max(a, b) == IF a > b THEN a ELSE b

(***************************************************************************)
(* Calibration text and load_cam.                                          *)
(* A token of file.read().split() is a record: numeric says whether        *)
(* float(token) succeeds, v is the value it then has.  The code indexes    *)
(* words from 0; Word(words, k) is the code's words[k].                    *)
(***************************************************************************)
NumTok(n, d) == [numeric |-> TRUE, v |-> Rat(n, d)]
WordTok == [numeric |-> FALSE, v |-> RZero]
Word(words, k) == words[k + 1]

\* an optional argument: None, or a value
NoneArg == [given |-> FALSE, v |-> 0]
SomeArg(x) == [given |-> TRUE, v |-> x]

\* np.zeros((2, 4, 4))
ZeroCam == [k \in 0..1 |-> [i \in 0..3 |-> [j \in 0..3 |-> RZero]]]

\* the indices load_cam reads unconditionally, in the order it reads them:
\* extrinsic_index = 4*i + j + 1, then intrinsic_index = 3*i + j + 18
HeaderIdx ==
    [k \in 1..16 |-> k] \o [k \in 1..9 |-> k + 17]

\* the indices the branch on len(words) reads, in order
TailIdx(n) ==
    CASE n = 29 -> <<27, 28>>
      [] n = 30 -> <<27, 28, 29>>
      [] n = 31 -> <<27, 28, 29, 30>>
      [] OTHER  -> <<>>

\* the first exception a sequence of reads words[idx] (converted to float)
\* raises: IndexError past the end, ValueError on a non-numeric token
RECURSIVE FirstExc(_, _, _)
FirstExc(words, idxs, k) ==
    IF k > Len(idxs) THEN "none"
    ELSE IF idxs[k] >= Len(words) THEN "IndexError"
    ELSE IF ~Word(words, idxs[k]).numeric THEN "ValueError"
    ELSE FirstExc(words, idxs, k + 1)

\* a derived end that steps down from start instead of up
DerivedEnd_down(start, interval, count) ==
    RSub(start, RMul(interval, count))

\* cam[1][3][3] in the 29- and 30-token branches
DerivedEnd(start, interval, count) ==
    RAdd(start, RMul(interval, count))

\* a dispatch that takes every text of 31 tokens or more as the explicit
\* layout, instead of exactly 31
DepthRow_atLeast31(words, interval_scale, max_d) ==
    LET n == Len(words)
        start == Word(words, 27).v
        interval == RMul(Word(words, 28).v, interval_scale)
    IN  CASE n = 29 ->
               LET count == IF max_d.given THEN RInt(max_d.v)
                            ELSE RInt(FLAGS.max_d)
               IN  <<start, interval, count,
                     DerivedEnd(start, interval, count)>>
          [] n = 30 ->
               LET count == Word(words, 29).v
               IN  <<start, interval, count,
                     DerivedEnd(start, interval, count)>>
          [] n >= 31 ->
               <<start, interval, Word(words, 29).v, Word(words, 30).v>>
          [] OTHER ->
               <<RZero, RZero, RZero, RZero>>

\* the depth-sampling row cam[1][3][0..3] load_cam writes
DepthRow(words, interval_scale, max_d) ==
    LET n == Len(words)
        start == Word(words, 27).v
        interval == RMul(Word(words, 28).v, interval_scale)
    IN  CASE n = 29 ->
               LET count == IF max_d.given THEN RInt(max_d.v)
                            ELSE RInt(FLAGS.max_d)
               IN  <<start, interval, count,
                     DerivedEnd(start, interval, count)>>
          [] n = 30 ->
               LET count == Word(words, 29).v
               IN  <<start, interval, count,
                     DerivedEnd(start, interval, count)>>
          [] n = 31 ->
               <<start, interval, Word(words, 29).v, Word(words, 30).v>>
          [] OTHER ->
               <<RZero, RZero, RZero, RZero>>

\* load_cam(file, interval_scale, max_d): the exception raised ("none" when
\* it returns) and the camera returned
load_cam(words, interval_scale, max_d) ==
    LET n == Len(words)
        exc == FirstExc(words, HeaderIdx \o TailIdx(n), 1)
        row == DepthRow(words, interval_scale, max_d)
        cam == [k \in 0..1 |-> [i \in 0..3 |-> [j \in 0..3 |->
                  IF k = 0 THEN Word(words, 4 * i + j + 1).v
                  ELSE IF i < 3 /\ j < 3 THEN Word(words, 3 * i + j + 18).v
                  ELSE IF i = 3 THEN row[j + 1]
                  ELSE RZero]]]
    IN  IF exc = "none" THEN [exc |-> "none", cam |-> cam]
        ELSE [exc |-> exc, cam |-> ZeroCam]

(***************************************************************************)
(* scale_camera, on the heap of camera arrays.  H is the heap, cam the id  *)
(* of the argument; the result is the new heap and the id returned.        *)
(***************************************************************************)
\* np.copy(cam): a new array with the same values
np_copy(H, cam) == [arrays |-> Append(H, H[cam]), ret |-> Len(H) + 1]

\* the four assignments of scale_camera: new_cam[...] = cam[...] * scale
ScaleIntrinsics(H, new_cam, cam, scale) ==
    LET h1 == [H  EXCEPT ![new_cam][1][0][0] = RMul(H[cam][1][0][0], scale)]
        h2 == [h1 EXCEPT ![new_cam][1][1][1] = RMul(h1[cam][1][1][1], scale)]
        h3 == [h2 EXCEPT ![new_cam][1][0][2] = RMul(h2[cam][1][0][2], scale)]
        h4 == [h3 EXCEPT ![new_cam][1][1][2] = RMul(h3[cam][1][1][2], scale)]
    IN  h4

\* a scale_camera that forgot np.copy and writes through its argument
scale_camera_inplace(H, cam, scale) ==
    [arrays |-> ScaleIntrinsics(H, cam, cam, scale), ret |-> cam]

scale_camera(H, cam, scale) ==
    LET c == np_copy(H, cam)
    IN  [arrays |-> ScaleIntrinsics(c.arrays, c.ret, cam, scale),
         ret |-> c.ret]

(***************************************************************************)
(* Images.  An image is the window it shows of the frame it was cut from:  *)
(* shape (h, w), and pixel (r, c) of the image is pixel (r0 + r, c0 + c)   *)
(* of that frame.  A resize resamples, which starts a new frame.  centered *)
(* says whether center_image has standardised the colours.                 *)
(***************************************************************************)
Image(h, w) == [h |-> h, w |-> w, r0 |-> 0, c0 |-> 0, centered |-> FALSE]

\* cvRound: the nearest integer, a tie going to the even one (x >= 0)
cvRound(x) ==
    LET q == (2 * x[1] + x[2]) \div (2 * x[2])
        tie == (2 * x[1] + x[2]) % (2 * x[2]) = 0
    IN  IF tie /\ q % 2 = 1 THEN q - 1 ELSE q

\* cv2.resize(image, None, fx=scale, fy=scale): dsize is
\* (round(fx * cols), round(fy * rows))
scale_image(image, scale) ==
    [Image(cvRound(RMul(RInt(image.h), scale)),
           cvRound(RMul(RInt(image.w), scale)))
        EXCEPT !.centered = image.centered]

\* center_image(img): the same shape, colours standardised
center_image(img) == [img EXCEPT !.centered = TRUE]

\* a[start:finish] on an axis of length n: the offset and length of the
\* slice (a negative bound counts from the end, both are clamped to 0..n)
SliceBound(n, i) == IF i < 0 THEN Max(i + n, 0) ELSE Min(i, n)
Slice(n, start, finish) ==
    LET lo == SliceBound(n, start)
        hi == SliceBound(n, finish)
    IN  [off |-> lo, len |-> Max(hi - lo, 0)]

\* image[start_h:finish_h, start_w:finish_w]
SliceImage(image, start_h, finish_h, start_w, finish_w) ==
    LET rs == Slice(image.h, start_h, finish_h)
        cs == Slice(image.w, start_w, finish_w)
    IN  [h |-> rs.len, w |-> cs.len,
         r0 |-> image.r0 + rs.off, c0 |-> image.c0 + cs.off,
         centered |-> image.centered]

\* int(math.ceil(a / 2)) for ints a: `/` floors in Python 2 and is true
\* division in Python 3
HalfCeil(a) == IF py = 2 THEN a \div 2 ELSE -((-a) \div 2)

\* the crop size along one axis, lines 82-91: size is h (or w), limit is
\* FLAGS.height (or FLAGS.width); h / FLAGS.base_image_size divides two
\* ints, so it floors in Python 2 before math.ceil sees it
CropSize(size, limit) ==
    IF size > limit THEN limit
    ELSE IF py = 2
    THEN (size \div FLAGS.base_image_size) * FLAGS.base_image_size
    ELSE RCeil(Rat(size, FLAGS.base_image_size)) * FLAGS.base_image_size

\* the crop window of one view, lines 81-95
CropWindow(image) ==
    LET h == image.h
        w == image.w
        new_h == CropSize(h, FLAGS.height)
        new_w == CropSize(w, FLAGS.width)
        start_h == HalfCeil(h - new_h)
        start_w == HalfCeil(w - new_w)
    IN  [new_h |-> new_h, new_w |-> new_w,
         start_h |-> start_h, start_w |-> start_w,
         finish_h |-> start_h + new_h, finish_w |-> start_w + new_w]

(***************************************************************************)
(* The multi-view transforms.  S is the pair of heaps [arrays, lists];     *)
(* images and cams are ids of list objects; a list is indexed from 0 in    *)
(* the code and from 1 here.  Each operator returns the heaps after the    *)
(* call together with the ids it returns.                                  *)
(***************************************************************************)
RECURSIVE scale_mvs_input_loop(_, _, _, _, _)
scale_mvs_input_loop(S, images, cams, scale, view) ==
    IF view >= FLAGS.view_num THEN S
    ELSE
        LET img == scale_image(S.lists[images][view + 1], scale)
            c == scale_camera(S.arrays, S.lists[cams][view + 1], scale)
            S1 == [arrays |-> c.arrays,
                   lists |-> [S.lists EXCEPT ![images][view + 1] = img,
                                             ![cams][view + 1] = c.ret]]
        IN  scale_mvs_input_loop(S1, images, cams, scale, view + 1)

scale_mvs_input(S, images, cams, scale) ==
    [heap |-> scale_mvs_input_loop(S, images, cams, scale, 0),
     images |-> images, cams |-> cams]

RECURSIVE scale_mvs_camera_loop(_, _, _, _)
scale_mvs_camera_loop(S, cams, scale, view) ==
    IF view >= FLAGS.view_num THEN S
    ELSE
        LET c == scale_camera(S.arrays, S.lists[cams][view + 1], scale)
            S1 == [arrays |-> c.arrays,
                   lists |-> [S.lists EXCEPT ![cams][view + 1] = c.ret]]
        IN  scale_mvs_camera_loop(S1, cams, scale, view + 1)

scale_mvs_camera(S, cams, scale) ==
    [heap |-> scale_mvs_camera_loop(S, cams, scale, 0), cams |-> cams]

\* one iteration of the loop of crop_mvs_input, lines 81-98: the image slot
\* is rebound to the slice, the camera array is written in place
CropView(S, images, cams, view) ==
    LET image == S.lists[images][view + 1]
        cam == S.lists[cams][view + 1]
        cw == CropWindow(image)
        a1 == [S.arrays EXCEPT ![cam][1][0][2] =
                   RSub(S.arrays[cam][1][0][2], RInt(cw.start_w))]
        a2 == [a1 EXCEPT ![cam][1][1][2] =
                   RSub(a1[cam][1][1][2], RInt(cw.start_h))]
    IN  [arrays |-> a2,
         lists |-> [S.lists EXCEPT ![images][view + 1] =
                        SliceImage(image, cw.start_h, cw.finish_h,
                                   cw.start_w, cw.finish_w)]]

RECURSIVE crop_mvs_input_loop(_, _, _, _)
crop_mvs_input_loop(S, images, cams, view) ==
    IF view >= FLAGS.view_num THEN S
    ELSE crop_mvs_input_loop(CropView(S, images, cams, view),
                             images, cams, view + 1)

crop_mvs_input(S, images, cams) ==
    [heap |-> crop_mvs_input_loop(S, images, cams, 0),
     images |-> images, cams |-> cams]

(***************************************************************************)
(* Inputs: the flags and the calibration texts the checks range over.      *)
(***************************************************************************)
MaxWords == 32        \* longest calibration text, in tokens
MaxCalls == 3         \* calls the camera harness makes (load_cam included)

\* the flags at the defaults of test.py; height and width are read by
\* crop_mvs_input and are set to the bounding box
Flags(view_num, max_h, max_w, interval_scale, adaptive_scaling) ==
    [view_num |-> view_num, max_d |-> 200,
     max_h |-> max_h, max_w |-> max_w,
     height |-> max_h, width |-> max_w,
     sample_scale |-> Rat(1, 4), interval_scale |-> interval_scale,
     base_image_size |-> 8, adaptive_scaling |-> adaptive_scaling]

\* a calibration text of n tokens: 'extrinsic', 16 numbers, 'intrinsic',
\* 9 numbers, then the tokens of tail (and 7s, should n reach past them)
ExtrinsicTok(k) ==
    CASE k \in {1, 6, 11, 16} -> NumTok(1, 1)
      [] k = 4  -> NumTok(-10, 1)
      [] k = 8  -> NumTok(20, 1)
      [] k = 12 -> NumTok(30, 1)
      [] OTHER  -> NumTok(0, 1)

IntrinsicTok(k) ==
    CASE k = 18 -> NumTok(5785, 2)
      [] k = 22 -> NumTok(2883, 1)
      [] k = 20 -> NumTok(823, 1)
      [] k = 23 -> NumTok(619, 1)
      [] k = 26 -> NumTok(1, 1)
      [] OTHER  -> NumTok(0, 1)

CamText(n, tail) ==
    [i \in 1..n |->
        LET k == i - 1
        IN  IF k \in {0, 17} THEN WordTok
            ELSE IF k < 17 THEN ExtrinsicTok(k)
            ELSE IF k < 27 THEN IntrinsicTok(k)
            ELSE IF k - 26 <= Len(tail) THEN tail[k - 26]
            ELSE NumTok(7, 1)]

StartToks == {NumTok(425, 1)}
IntervalToks == {NumTok(5, 2), NumTok(0, 1), WordTok}
CountToks == {NumTok(192, 1), NumTok(0, 1), NumTok(-2, 1)}
EndToks == {NumTok(905, 1), NumTok(100, 1)}
Tails == {<<a, b, c, d>> : a \in StartToks, b \in IntervalToks,
                           c \in CountToks, d \in EndToks}
CamLens == {16, 26} \cup 27..MaxWords
CamTexts == {CamText(n, tail) : n \in CamLens, tail \in Tails}

ScaleFactors == {Rat(1, 4), Rat(16, 25)}
CropImages == {Image(597, 1031), Image(771, 1024)}

\* the values the variables of a harness that is not running keep
IdleCam ==
    /\ camWords = <<>> /\ camMaxD = NoneArg
    /\ camExc = "idle" /\ camLog = <<>>
IdlePfm ==
    /\ pfmImage = <<>> /\ pfmScale = RZero /\ pfmHost = "none"
    /\ pfmFile = <<>> /\ pfmRead = <<>> /\ pfmPc = "idle"
IdleGen ==
    /\ sample_list = <<>> /\ pc = "idle" /\ cursor = 0
    /\ locals = <<>> /\ counter = 0 /\ emitted = <<>>
IdlePipe ==
    /\ buffer = <<>> /\ pushed = 0 /\ step = 0 /\ output_folder = {}
    /\ fetched = <<>>
IdleLoss ==
    /\ lossGt = <<>> /\ lossPredA = <<>> /\ lossPredB = <<>>
    /\ lossInterval = <<>> /\ lossCall = <<>>
    /\ lossOutA = <<>> /\ lossOutB = <<>>
IdleCrop ==
    /\ cropDepth = <<>> /\ cropOut = <<>>

(***************************************************************************)
(* The camera harness: load_cam on a calibration text, then scale_camera   *)
(* and crop_mvs_input (on a one-view sample) applied to the cameras made   *)
(* so far, in any order.                                                   *)
(***************************************************************************)
CamLogEntry(op, src, dst, scale, before) ==
    [op |-> op, src |-> src, dst |-> dst, scale |-> scale, before |-> before]

InitCam ==
    /\ arrays = <<>> /\ lists = <<>>
    /\ FLAGS \in {Flags(1, 768, 1024, s, TRUE) : s \in {Rat(1, 1), Rat(4, 5)}}
    /\ py \in {2, 3}
    /\ camWords \in CamTexts
    /\ camMaxD \in {NoneArg, SomeArg(3), SomeArg(-1)}
    /\ camExc = "pending" /\ camLog = <<>>
    /\ IdlePfm /\ IdleGen /\ IdlePipe /\ IdleLoss /\ IdleCrop

CamLoad ==
    /\ camExc = "pending"
    /\ LET r == load_cam(camWords, FLAGS.interval_scale, camMaxD)
       IN  /\ camExc' = r.exc
           /\ arrays' = IF r.exc = "none" THEN <<r.cam>> ELSE <<>>
           /\ camLog' = <<CamLogEntry("load_cam", 0, 1, RZero, ZeroCam)>>
    /\ UNCHANGED <<lists, FLAGS, py, camWords, camMaxD>>
    /\ UNCHANGED pfmVars /\ UNCHANGED genVars
    /\ UNCHANGED pipeVars /\ UNCHANGED lossVars
    /\ UNCHANGED cropVars

CamScale ==
    /\ camExc = "none" /\ Len(camLog) < MaxCalls
    /\ \E cam \in 1..Len(arrays), scale \in ScaleFactors :
          LET r == scale_camera(arrays, cam, scale)
          IN  /\ arrays' = r.arrays
              /\ camLog' = Append(camLog,
                    CamLogEntry("scale_camera", cam, r.ret, scale,
                                arrays[cam]))
    /\ UNCHANGED <<lists, FLAGS, py, camWords, camMaxD, camExc>>
    /\ UNCHANGED pfmVars /\ UNCHANGED genVars
    /\ UNCHANGED pipeVars /\ UNCHANGED lossVars
    /\ UNCHANGED cropVars

CamCrop ==
    /\ camExc = "none" /\ Len(camLog) < MaxCalls
    /\ \E cam \in 1..Len(arrays), image \in CropImages :
          LET S == [arrays |-> arrays, lists |-> <<<<image>>, <<cam>>>>]
              r == crop_mvs_input(S, 1, 2)
          IN  /\ arrays' = r.heap.arrays
              /\ lists' = r.heap.lists
              /\ camLog' = Append(camLog,
                    CamLogEntry("crop_mvs_input", cam, cam, RZero,
                                arrays[cam]))
    /\ UNCHANGED <<FLAGS, py, camWords, camMaxD, camExc>>
    /\ UNCHANGED pfmVars /\ UNCHANGED genVars
    /\ UNCHANGED pipeVars /\ UNCHANGED lossVars
    /\ UNCHANGED cropVars

NextCam == CamLoad \/ CamScale \/ CamCrop
SpecCam == InitCam /\ [][NextCam]_vars

(***************************************************************************)
(* Properties of load_cam and scale_camera (checked under SpecCam).        *)
(***************************************************************************)
\* the fields of a camera array
Fx(a) == a[1][0][0]
Fy(a) == a[1][1][1]
Cx(a) == a[1][0][2]
Cy(a) == a[1][1][2]
DepthStart(a) == a[1][3][0]
DepthInterval(a) == a[1][3][1]
DepthCount(a) == a[1][3][2]
DepthEnd(a) == a[1][3][3]

LastCall == camLog[Len(camLog)]
\* the count the 29-token layout takes from outside the text
ExternalCount == IF camMaxD.given THEN RInt(camMaxD.v) ELSE RInt(FLAGS.max_d)

\* C5: scale_camera(cam, factor) returns a new camera whose fx, fy, cx, cy
\* are the input's times factor and whose extrinsic block and depth row
\* {start, interval, count, end} are the input's; the input camera, and
\* every other camera that existed, is unchanged.
C5_ScaleCameraCopies ==
    [][(Len(camLog') > Len(camLog) /\ camLog'[Len(camLog')].op = "scale_camera")
        => LET e == camLog'[Len(camLog')]
               in == arrays[e.src]
               out == arrays'[e.dst]
           IN  /\ e.dst \notin 1..Len(arrays)
               /\ Fx(out) = RMul(Fx(in), e.scale)
               /\ Fy(out) = RMul(Fy(in), e.scale)
               /\ Cx(out) = RMul(Cx(in), e.scale)
               /\ Cy(out) = RMul(Cy(in), e.scale)
               /\ out[0] = in[0]
               /\ out[1][3] = in[1][3]
               /\ \A id \in 1..Len(arrays) : arrays'[id] = arrays[id]]_vars

\* C5 witness: scale_camera has just returned a camera whose intrinsics
\* differ from its input's
C5_Witness ==
    /\ Len(camLog) > 1 /\ LastCall.op = "scale_camera"
    /\ Fx(arrays[LastCall.dst]) # Fx(arrays[LastCall.src])
    /\ Cy(arrays[LastCall.dst]) # Cy(arrays[LastCall.src])
    /\ DepthInterval(arrays[LastCall.dst]) # RZero

\* C6: for the 29- and 30-token layouts the parsed camera's end equals
\* start + interval * (count - 1).  (The claim as stated; load_cam computes
\* start + interval * count.)
C6_DerivedEndIsLastSample ==
    (camExc = "none" /\ Len(camWords) \in {29, 30})
        => LET a == arrays[1]
           IN  DepthEnd(a) =
                   RAdd(DepthStart(a),
                        RMul(DepthInterval(a), RSub(DepthCount(a), RInt(1))))

\* interval > 0 implies end >= start
EndNotBeforeStart(a) ==
    RGt(DepthInterval(a), RZero) => RGe(DepthEnd(a), DepthStart(a))

\* C7 as stated: every camera load_cam produces, in any layout, and every
\* camera derived from it by scale or crop, has end >= start when
\* interval > 0.
C7_EndNotBeforeStart ==
    \A id \in 1..Len(arrays) : EndNotBeforeStart(arrays[id])

\* the layouts in which the text cannot put end before start: the zero
\* fallback, a derived end with a count >= 0, an explicit end >= start
TextOrdersEnd ==
    LET n == Len(camWords)
    IN  CASE n = 29 -> RGe(ExternalCount, RZero)
          [] n = 30 -> RGe(Word(camWords, 29).v, RZero)
          [] n = 31 -> RGe(Word(camWords, 30).v, Word(camWords, 27).v)
          [] OTHER  -> TRUE

\* C7 (amended): every camera load_cam produces from the zero fallback, from
\* a 29- or 30-token text with a count >= 0, or from a 31-token text whose
\* explicit end is >= its start, and every camera derived from it by scale
\* or crop, has end >= start when interval > 0.
C7_EndNotBeforeStartWhenTextAllows ==
    TextOrdersEnd => \A id \in 1..Len(arrays) : EndNotBeforeStart(arrays[id])

\* C7 witness: a camera parsed from a 30-token text with a positive interval
\* and count has been scaled, and a camera has been cropped
C7_Witness ==
    /\ camExc = "none" /\ Len(camWords) = 30 /\ TextOrdersEnd
    /\ Len(arrays) = 2
    /\ RGt(DepthInterval(arrays[2]), RZero)
    /\ RGt(DepthEnd(arrays[2]), DepthStart(arrays[2]))
    /\ \E i \in 1..Len(camLog) : camLog[i].op = "scale_camera"
    /\ \E i \in 1..Len(camLog) : camLog[i].op = "crop_mvs_input"

\* C8: a text of at least 27 tokens whose length is not 29, 30 or 31 parses
\* without an exception to a camera whose depth row is all zero; a text of
\* 29 tokens that parses takes start and interval from the text and the
\* count from outside, one of 30 takes the count from the text too, one of
\* 31 takes all four from the text.
C8_TokenCountSelectsLayout ==
    LET n == Len(camWords)
        interval == RMul(Word(camWords, 28).v, FLAGS.interval_scale)
    IN  /\ (camExc # "pending" /\ n >= 27 /\ n \notin {29, 30, 31})
              => /\ camExc = "none"
                 /\ arrays[1][1][3] = [j \in 0..3 |-> RZero]
        /\ (camExc = "none" /\ n \in {29, 30, 31})
              => /\ DepthStart(arrays[1]) = Word(camWords, 27).v
                 /\ DepthInterval(arrays[1]) = interval
                 /\ DepthCount(arrays[1]) =
                        IF n = 29 THEN ExternalCount ELSE Word(camWords, 29).v
                 /\ n = 31 => DepthEnd(arrays[1]) = Word(camWords, 30).v

\* C8 witness: a 32-token text, one of its trailing tokens not a number, has
\* parsed to a camera with a zero depth row and usable intrinsics
C8_Witness ==
    /\ camExc = "none" /\ Len(camWords) = 32
    /\ ~Word(camWords, 28).numeric
    /\ arrays[1][1][3] = [j \in 0..3 |-> RZero]
    /\ Fx(arrays[1]) # RZero

(***************************************************************************)
(* The PFM codec.  An ndarray is [dtype, byteorder, shape, px]: dtype is   *)
(* image.dtype.name, byteorder is image.dtype.byteorder, px the values in  *)
(* C order.  A float32 value is its four bytes, most significant first.    *)
(* A file is the record of the parts write_pfm writes, in order.           *)
(***************************************************************************)
RECURSIVE Numel(_)
Numel(shape) == IF shape = <<>> THEN 1 ELSE Head(shape) * Numel(Tail(shape))

Reverse(q) == [i \in 1..Len(q) |-> q[Len(q) + 1 - i]]

\* np.flipud / cv2.flip(data, 0): the rows (first axis) in reverse order
FlipRows(px, shape) ==
    LET rows == shape[1]
        rowlen == Len(px) \div rows
    IN  [i \in 1..Len(px) |->
            LET r == (i - 1) \div rowlen
                k == (i - 1) % rowlen
            IN  px[(rows - 1 - r) * rowlen + k + 1]]

\* whether the array's memory holds little-endian floats (numpy: '<' is
\* little, '>' is big, '=' is the host's order)
StoredLittle(byteorder, host) ==
    byteorder = "<" \/ (byteorder = "=" /\ host = "little")

\* image.tostring(): every value's bytes in the array's byte order
tostring(px, little) ==
    [i \in 1..Len(px) |-> IF little THEN Reverse(px[i]) ELSE px[i]]

\* np.fromstring(data_string, '<f' or '>f')
fromstring(data, little) ==
    [i \in 1..Len(data) |-> IF little THEN Reverse(data[i]) ELSE data[i]]

\* '%f' % x: sign and the magnitude rounded to six decimals, in millionths
FormatF(x) ==
    [neg |-> x[1] < 0, micro |-> cvRound(Rat(Abs(x[1]) * 1000000, x[2]))]

\* float(text) of a text FormatF produced
ParseFloat(t) == Rat(IF t.neg THEN -t.micro ELSE t.micro, 1000000)

\* a test that looks at the host only and ignores the array's byte order
Negates_hostOnly(endian, host) == host = "little"

\* line 347: endian == '<' or endian == '=' and sys.byteorder == 'little'
Negates(endian, host) ==
    endian = "<" \/ (endian = "=" /\ host = "little")

NoFile == [exists |-> FALSE, tag |-> "", width |-> 0, height |-> 0,
           scale |-> FormatF(RZero), data |-> <<>>]

\* a file of no bytes
EmptyFile == [NoFile EXCEPT !.exists = TRUE]

\* an open that creates or truncates the destination at once
FileIO_wb_eager(dest) == EmptyFile

\* line 327, file_io.FileIO(file, mode='wb'): the destination as the
\* constructor leaves it; it only records name and mode, the file is
\* created (or truncated) by the first write
FileIO_wb(dest) == dest

\* write_pfm(file, image, scale) run on a host of byte order host, dest
\* being what is at the path before the call: the exception raised ("none"
\* when it returns) and what is at the path afterwards
write_pfm(dest, image, scale, host) ==
    LET opened == FileIO_wb(dest)
        shape == image.shape
        flipped == FlipRows(image.px, shape)
        color == Len(shape) = 3 /\ shape[3] = 3
        grey == Len(shape) = 2 \/ (Len(shape) = 3 /\ shape[3] = 1)
        written == IF Negates(image.byteorder, host) THEN RNeg(scale)
                   ELSE scale
    IN  IF image.dtype # "float32" THEN [exc |-> "Exception", file |-> opened]
        ELSE IF ~color /\ ~grey THEN [exc |-> "Exception", file |-> opened]
        ELSE [exc |-> "none",
              file |-> [exists |-> TRUE,
                        tag |-> IF color THEN "PF" ELSE "Pf",
                        width |-> shape[2], height |-> shape[1],
                        scale |-> FormatF(written),
                        data |-> tostring(flipped,
                                    StoredLittle(image.byteorder, host))]]

NoArray == [color |-> FALSE, shape |-> <<>>, px |-> <<>>]

\* a load_pfm that returns the rows in file order
load_pfm_noflip(file) ==
    LET color == file.tag = "PF"
        little == RLt(ParseFloat(file.scale), RZero)
        data == fromstring(file.data, little)
        shape == IF color THEN <<file.height, file.width, 3>>
                 ELSE <<file.height, file.width>>
    IN  IF file.tag \notin {"PF", "Pf"}
        THEN [exc |-> "Exception", array |-> NoArray]
        ELSE IF Len(data) # Numel(shape)
        THEN [exc |-> "ValueError", array |-> NoArray]
        ELSE [exc |-> "none",
              array |-> [color |-> color, shape |-> shape, px |-> data]]

\* load_pfm(file): the exception raised and the array returned (with the
\* color flag the header selected)
load_pfm(file) ==
    LET color == file.tag = "PF"
        little == RLt(ParseFloat(file.scale), RZero)
        data == fromstring(file.data, little)
        shape == IF color THEN <<file.height, file.width, 3>>
                 ELSE <<file.height, file.width>>
    IN  IF file.tag \notin {"PF", "Pf"}
        THEN [exc |-> "Exception", array |-> NoArray]
        ELSE IF Len(data) # Numel(shape)
        THEN [exc |-> "ValueError", array |-> NoArray]
        ELSE [exc |-> "none",
              array |-> [color |-> color, shape |-> shape,
                         px |-> FlipRows(data, shape)]]

(***************************************************************************)
(* The codec harness: write_pfm on an array, then load_pfm on the file.    *)
(***************************************************************************)
MaxRows == 2          \* tallest array written
MaxCols == 2          \* widest array written

PfmShapes ==
    UNION {{<<h, w>>, <<h, w, 1>>, <<h, w, 3>>, <<h, w, 2>>, <<w>>} :
              h \in 1..MaxRows, w \in 1..MaxCols}

\* values that tell positions and byte orders apart, or all 1.0
MarkPx(n) == [i \in 1..n |-> <<65, i, 16, 1>>]
OnesPx(n) == [i \in 1..n |-> <<63, 128, 0, 0>>]

PfmInputs ==
    UNION {{[dtype |-> d, byteorder |-> bh[1], shape |-> sh,
             px |-> MarkPx(Numel(sh)), host |-> bh[2]],
            [dtype |-> d, byteorder |-> bh[1], shape |-> sh,
             px |-> OnesPx(Numel(sh)), host |-> bh[2]]} :
        d \in {"float32", "float64"},
        bh \in {<<"=", "little">>, <<">", "little">>,
                <<"=", "big">>, <<"<", "big">>},
        sh \in PfmShapes}

PfmScales == {Rat(1, 1), Rat(-1, 1), RZero, Rat(1, 4), Rat(1, 128),
              Rat(1, 2097152)}

\* a file an earlier call left at the path: a 1 x 1 map holding 1.0,
\* written on a little-endian host
EarlierFile ==
    [exists |-> TRUE, tag |-> "Pf", width |-> 1, height |-> 1,
     scale |-> FormatF(Rat(-1, 1)), data |-> <<<<0, 0, 128, 63>>>>]

InitPfm ==
    /\ arrays = <<>> /\ lists = <<>>
    /\ FLAGS = Flags(1, 768, 1024, Rat(1, 1), TRUE) /\ py = 2
    /\ \E in \in PfmInputs :
          /\ pfmImage = [dtype |-> in.dtype, byteorder |-> in.byteorder,
                         shape |-> in.shape, px |-> in.px]
          /\ pfmHost = in.host
    /\ pfmScale \in PfmScales
    /\ pfmFile \in {NoFile, EarlierFile}
    /\ pfmRead = NoArray /\ pfmPc = "init"
    /\ IdleCam /\ IdleGen /\ IdlePipe /\ IdleLoss /\ IdleCrop

PfmWrite ==
    /\ pfmPc = "init"
    /\ LET r == write_pfm(pfmFile, pfmImage, pfmScale, pfmHost)
       IN  /\ pfmFile' = r.file
           /\ pfmPc' = IF r.exc = "none" THEN "written" ELSE r.exc
    /\ UNCHANGED <<pfmImage, pfmScale, pfmHost, pfmRead>>
    /\ UNCHANGED heapVars /\ UNCHANGED camVars /\ UNCHANGED genVars
    /\ UNCHANGED pipeVars /\ UNCHANGED lossVars
    /\ UNCHANGED cropVars

PfmLoad ==
    /\ pfmPc = "written"
    /\ LET r == load_pfm(pfmFile)
       IN  /\ pfmRead' = r.array
           /\ pfmPc' = IF r.exc = "none" THEN "read" ELSE r.exc
    /\ UNCHANGED <<pfmImage, pfmScale, pfmHost, pfmFile>>
    /\ UNCHANGED heapVars /\ UNCHANGED camVars /\ UNCHANGED genVars
    /\ UNCHANGED pipeVars /\ UNCHANGED lossVars
    /\ UNCHANGED cropVars

NextPfm == PfmWrite \/ PfmLoad
SpecPfm == InitPfm /\ [][NextPfm]_vars

(***************************************************************************)
(* Properties of the PFM codec (checked under SpecPfm).                    *)
(***************************************************************************)
IsColorShape(shape) == Len(shape) = 3 /\ shape[3] = 3
IsGreyShape(shape) == Len(shape) = 2 \/ (Len(shape) = 3 /\ shape[3] = 1)
DefaultScale == Rat(1, 1)

\* C9 as stated: for a float32 array of shape HxW, HxWx1 or HxWx3 written
\* with the default scale, load_pfm of the file returns the same values at
\* the same positions, the same shape (HxWx1 included) and the same
\* mono/color flag.
C9_RoundTripKeepsShape ==
    (pfmPc = "read" /\ pfmScale = DefaultScale)
        => /\ pfmRead.px = pfmImage.px
           /\ pfmRead.shape = pfmImage.shape
           /\ pfmRead.color = IsColorShape(pfmImage.shape)

\* C9 (amended): for a float32 array of shape HxW, HxWx1 or HxWx3 written
\* with the default scale, write_pfm succeeds, and load_pfm of the file
\* returns the same values in the same order and the same mono/color flag;
\* the shape is the input's for HxW and HxWx3, and HxW for an HxWx1 input.
C9_RoundTripUpToUnitAxis ==
    LET sh == pfmImage.shape
        valid == pfmImage.dtype = "float32"
                    /\ (IsColorShape(sh) \/ IsGreyShape(sh))
    IN  /\ (pfmPc \notin {"init", "idle"} /\ valid)
              => pfmPc \in {"written", "read"}
        /\ (pfmPc = "read" /\ pfmScale = DefaultScale)
              => /\ pfmRead.px = pfmImage.px
                 /\ pfmRead.color = IsColorShape(sh)
                 /\ pfmRead.shape =
                        IF IsColorShape(sh) THEN sh ELSE <<sh[1], sh[2]>>

\* C9 witness: a 2-row HxWx1 array of distinct values, stored big-endian on
\* a little-endian host, has been written and read back as HxW
C9_Witness ==
    /\ pfmPc = "read" /\ pfmScale = DefaultScale
    /\ pfmImage.shape = <<2, 2, 1>> /\ pfmRead.shape = <<2, 2>>
    /\ pfmImage.byteorder = ">" /\ pfmHost = "little"
    /\ pfmImage.px = MarkPx(4) /\ pfmRead.px = pfmImage.px

\* the header's scale is negative, which is what makes load_pfm decode '<f'
HeaderSaysLittle == RLt(ParseFloat(pfmFile.scale), RZero)
\* the payload was written from little-endian memory
PayloadIsLittle == StoredLittle(pfmImage.byteorder, pfmHost)

\* C10 as stated: for every array and every scale argument, the scale in the
\* header is negative exactly when the payload is little-endian.
C10_SignTellsByteOrder ==
    pfmPc \in {"written", "read"} => (HeaderSaysLittle <=> PayloadIsLittle)

\* the scale arguments whose sign survives: positive, and not rounded to
\* zero by '%f' (at least 0.0000005)
ScalePrintsPositive == RGt(pfmScale, RZero) /\ FormatF(pfmScale).micro > 0

\* C10 (amended): for every array and every scale argument that is positive
\* and that '%f' does not round to 0.000000, the scale in the header is
\* negative exactly when the payload is little-endian, and load_pfm decodes
\* the values that were written.
C10_SignTellsByteOrderForPositiveScale ==
    ScalePrintsPositive
        => /\ pfmPc \in {"written", "read"}
                 => (HeaderSaysLittle <=> PayloadIsLittle)
           /\ pfmPc = "read" => pfmRead.px = pfmImage.px

\* C10 witness: a big-endian array on a little-endian host, written with
\* scale 1/4, was read back from a header with a positive scale
C10_Witness ==
    /\ pfmPc = "read" /\ pfmScale = Rat(1, 4)
    /\ pfmImage.byteorder = ">" /\ pfmHost = "little"
    /\ ~HeaderSaysLittle /\ ~PayloadIsLittle
    /\ pfmImage.px = MarkPx(Len(pfmImage.px)) /\ pfmRead.px = pfmImage.px

(***************************************************************************)
(* MVSGenerator.__iter__ (test.py).  A sample (data) lists its views; the  *)
(* model names a view by the number in its file names, so data[2 * view]   *)
(* and data[2 * view + 1] are the image and the calibration text of view   *)
(* data[view + 1] here, and len(data) / 2 is Len(data).  The generator is  *)
(* built with view_num = FLAGS.view_num (test.py line 192).  The files it  *)
(* writes and never reads (poses.txt, centered_images/*.jpg) are left out. *)
(***************************************************************************)
MaxSamples == 2       \* longest sample list
MaxPulls == 3         \* batches the consumer pulls

\* the dense folder: native (h, w) of each view's image, and its
\* calibration text
NativeSize(v) ==
    CASE v = 0 -> <<768, 1024>>
      [] v = 1 -> <<600, 800>>
      [] v = 2 -> <<300, 400>>
      [] v = 3 -> <<1200, 1000>>
      [] OTHER -> <<768, 1024>>

CamFile(v) ==
    CASE v = 0 -> CamText(30, <<NumTok(425, 1), NumTok(5, 2), NumTok(192, 1)>>)
      [] v = 1 -> CamText(29, <<NumTok(425, 1), NumTok(5, 2)>>)
      [] v = 2 -> CamText(31, <<NumTok(425, 1), NumTok(5, 2), NumTok(192, 1),
                                NumTok(905, 1)>>)
      [] v = 3 -> CamText(27, <<>>)
      [] OTHER -> CamText(16, <<>>)

Samples == {<<0, 1>>, <<1, 0>>, <<0>>, <<3>>, <<0, 2>>, <<3, 0>>, <<4, 0>>}

RECURSIVE SeqsUpTo(_, _)
SeqsUpTo(S, n) ==
    IF n = 0 THEN {<<>>}
    ELSE LET shorter == SeqsUpTo(S, n - 1)
         IN  shorter \cup {Append(q, x) : q \in shorter, x \in S}

\* file names are sequences of characters
Digits == <<"0", "1", "2", "3", "4", "5", "6", "7", "8", "9">>
DigitChar(d) == Digits[d + 1]
DigitVal(c) == CHOOSE d \in 0..9 : DigitChar(d) = c

\* str(n) for n >= 0
RECURSIVE Decimal(_)
Decimal(n) == IF n < 10 THEN <<DigitChar(n)>>
              ELSE Append(Decimal(n \div 10), DigitChar(n % 10))

RECURSIVE ZeroPad(_, _)
ZeroPad(str, width) ==
    IF Len(str) >= width THEN str ELSE ZeroPad(<<"0">> \o str, width)

\* '%08d' % n
Format08(n) == ZeroPad(Decimal(n), 8)

\* the image file of view v as gen_pipeline_mvs_list names it
\* (preprocess.py lines 558-559 and 568-569)
ImagePath(v) ==
    <<"i", "m", "a", "g", "e", "s", "/">> \o Format08(v)
        \o <<".", "j", "p", "g">>

\* the position of the last occurrence of c in str, 0 when there is none
LastIndexOf(str, c) ==
    LET at == {i \in 1..Len(str) : str[i] = c}
    IN  IF at = {} THEN 0 ELSE CHOOSE i \in at : \A j \in at : j <= i

\* os.path.basename
basename(path) == SubSeq(path, LastIndexOf(path, "/") + 1, Len(path))

\* os.path.splitext(name)[0]
splitext0(name) ==
    LET dot == LastIndexOf(name, ".")
    IN  IF dot <= 1 THEN name ELSE SubSeq(name, 1, dot - 1)

\* int(str) of a string of decimal digits
RECURSIVE ParseInt(_)
ParseInt(str) ==
    IF str = <<>> THEN 0
    ELSE 10 * ParseInt(SubSeq(str, 1, Len(str) - 1)) + DigitVal(str[Len(str)])

\* lines 85-86: the sample's ID, read back from its reference file name
ImageIndex(data) == ParseInt(splitext0(basename(ImagePath(data[1]))))

\* a generator that stays on the last sample of the list
NextSample_stay(at, n) == IF at < n THEN at + 1 ELSE n

\* line 80 inside line 78: the sample after sample at (from 1; 0 before the
\* first), the first again after the last
NextSample(at, n) == (at % n) + 1

NoLocals ==
    [image_index |-> 0, images |-> 0, cams |-> 0, resize_scale |-> RZero,
     scaled_input_images |-> 0, scaled_input_cams |-> 0,
     croped_images |-> 0, croped_cams |-> 0, centered_images |-> 0,
     real_cams |-> 0, scaled_cams |-> 0, exc |-> "none"]

NoBatch ==
    [scaled_images |-> <<>>, centered_images |-> <<>>,
     scaled_cams |-> <<>>, image_index |-> 0]

\* the view loaded into slot view (from 0): the sample's own view, or the
\* reference view when the sample lists too few (lines 93 and 107-115)
SlotView(data, view) ==
    IF view < Min(FLAGS.view_num, Len(data)) THEN data[view + 1] ELSE data[1]

\* the camera of slot view after loading: load_cam, and for the sample's
\* own views a zero count replaced by FLAGS.max_d (lines 98-100, 113)
SlotCam(data, view) ==
    LET r == load_cam(CamFile(SlotView(data, view)), FLAGS.interval_scale,
                      NoneArg)
        own == view < Min(FLAGS.view_num, Len(data))
    IN  [exc |-> r.exc,
         cam |-> IF own /\ r.exc = "none" /\ r.cam[1][3][2] = RZero
                 THEN [r.cam EXCEPT ![1][3][2] = RInt(FLAGS.max_d)]
                 ELSE r.cam]

\* the exception of the first slot whose calibration text fails to load
RECURSIVE LoadExc(_, _)
LoadExc(data, view) ==
    IF view >= FLAGS.view_num THEN "none"
    ELSE IF SlotCam(data, view).exc # "none" THEN SlotCam(data, view).exc
    ELSE LoadExc(data, view + 1)

\* lines 122-132: the largest max_h / h and the largest max_w / w
RECURSIVE h_scale(_, _)
h_scale(images, view) ==
    IF view = 0 THEN RZero
    ELSE RMax(h_scale(images, view - 1), Rat(FLAGS.max_h, images[view].h))

RECURSIVE w_scale(_, _)
w_scale(images, view) ==
    IF view = 0 THEN RZero
    ELSE RMax(w_scale(images, view - 1), Rat(FLAGS.max_w, images[view].w))

\* a test that rejects only when both scales exceed 1
Rejects_both(hs, ws) == RGt(hs, RInt(1)) /\ RGt(ws, RInt(1))

\* line 133: h_scale > 1 or w_scale > 1
Rejects(hs, ws) == RGt(hs, RInt(1)) \/ RGt(ws, RInt(1))

\* a choice of the smaller of the two scales
ResizeScale_smaller(hs, ws) == IF RLt(ws, hs) THEN ws ELSE hs

\* a choice that forgets the comparison with w_scale
ResizeScale_heightOnly(hs, ws) == hs

\* lines 136-138: resize_scale = h_scale, or w_scale if that is larger
ResizeScale(hs, ws) == IF RGt(ws, hs) THEN ws ELSE hs

\* cv2.resize raises when the size it is to produce is empty
ResizeFails(image, scale) ==
    LET out == scale_image(image, scale) IN out.h = 0 \/ out.w = 0

\* np.stack raises ValueError unless all the arrays have one shape
StackFails(images) ==
    \E i, j \in 1..Len(images) :
        images[i].h # images[j].h \/ images[i].w # images[j].w

\* a copy that hands back the list it was given
np_copy_cams_alias(S, cams) == [heap |-> S, ret |-> cams]

\* np.copy(croped_cams): a new container holding copies of the cameras
np_copy_cams(S, cams) ==
    LET n == Len(S.lists[cams])
        base == Len(S.arrays)
    IN  [heap |-> [arrays |-> S.arrays \o
                        [k \in 1..n |-> S.arrays[S.lists[cams][k]]],
                   lists |-> Append(S.lists, [k \in 1..n |-> base + k])],
         ret |-> Len(S.lists) + 1]

Heap == [arrays |-> arrays, lists |-> lists]

GenFlags ==
    {Flags(n, box[1], box[2], Rat(1, 1), a) :
        n \in {2, 3}, box \in {<<384, 512>>, <<768, 1024>>}, a \in BOOLEAN}

Init ==
    /\ arrays = <<>> /\ lists = <<>>
    /\ FLAGS \in GenFlags
    /\ py \in {2, 3}
    /\ sample_list \in SeqsUpTo(Samples, MaxSamples)
    /\ pc = "suspended" /\ cursor = 0 /\ locals = NoLocals
    /\ counter = 0 /\ emitted = NoBatch
    /\ IdleCam /\ IdlePfm /\ IdlePipe /\ IdleLoss /\ IdleCrop

\* the consumer asks for the next batch: the generator runs on from its
\* yield (or from the top) to the next sample of the list, starting the
\* list again after its last sample; over an empty list it loops for ever
GenPull ==
    /\ pc = "suspended" /\ counter < MaxPulls
    /\ IF sample_list = <<>>
       THEN /\ pc' = "spinning"
            /\ UNCHANGED <<arrays, lists, cursor, locals>>
       ELSE /\ pc' = "load"
            /\ cursor' = NextSample(cursor, Len(sample_list))
            /\ arrays' = <<>> /\ lists' = <<>>
            /\ locals' = NoLocals
    /\ UNCHANGED <<FLAGS, py, sample_list, counter, emitted>>
    /\ UNCHANGED camVars /\ UNCHANGED pfmVars
    /\ UNCHANGED pipeVars /\ UNCHANGED lossVars
    /\ UNCHANGED cropVars

\* lines 85-117: read the images and cameras of the sample
GenLoad ==
    /\ pc = "load"
    /\ LET data == sample_list[cursor]
           exc == LoadExc(data, 0)
           n == FLAGS.view_num
       IN  IF exc # "none"
           THEN /\ pc' = "raised"
                /\ locals' = [locals EXCEPT !.image_index = ImageIndex(data),
                                            !.exc = exc]
                /\ UNCHANGED <<arrays, lists>>
           ELSE /\ pc' = "resize"
                /\ arrays' = [k \in 1..n |-> SlotCam(data, k - 1).cam]
                /\ lists' =
                      <<[k \in 1..n |->
                            Image(NativeSize(SlotView(data, k - 1))[1],
                                  NativeSize(SlotView(data, k - 1))[2])],
                        [k \in 1..n |-> k]>>
                /\ locals' = [locals EXCEPT !.image_index = ImageIndex(data),
                                            !.images = 1, !.cams = 2]
    /\ UNCHANGED <<FLAGS, py, sample_list, cursor, counter, emitted>>
    /\ UNCHANGED camVars /\ UNCHANGED pfmVars
    /\ UNCHANGED pipeVars /\ UNCHANGED lossVars
    /\ UNCHANGED cropVars

\* lines 119-138: determine the scale to resize the input by
GenResizeScale ==
    /\ pc = "resize"
    /\ LET images == lists[locals.images]
           hs == h_scale(images, FLAGS.view_num)
           ws == w_scale(images, FLAGS.view_num)
       IN  IF ~FLAGS.adaptive_scaling
           THEN /\ pc' = "scale"
                /\ locals' = [locals EXCEPT !.resize_scale = RInt(1)]
           ELSE IF Rejects(hs, ws)
           THEN /\ pc' = "exited"
                /\ UNCHANGED locals
           ELSE /\ pc' = "scale"
                /\ locals' = [locals EXCEPT
                                 !.resize_scale = ResizeScale(hs, ws)]
    /\ UNCHANGED <<arrays, lists, FLAGS, py, sample_list, cursor, counter,
                   emitted>>
    /\ UNCHANGED camVars /\ UNCHANGED pfmVars
    /\ UNCHANGED pipeVars /\ UNCHANGED lossVars
    /\ UNCHANGED cropVars

\* lines 139-140: scale_mvs_input(images, cams, scale=resize_scale)
GenScale ==
    /\ pc = "scale"
    /\ IF \E k \in 1..FLAGS.view_num :
             ResizeFails(lists[locals.images][k], locals.resize_scale)
       THEN /\ pc' = "raised"
            /\ locals' = [locals EXCEPT !.exc = "cv2.error"]
            /\ UNCHANGED <<arrays, lists>>
       ELSE LET r == scale_mvs_input(Heap, locals.images, locals.cams,
                                     locals.resize_scale)
            IN  /\ pc' = "crop"
                /\ arrays' = r.heap.arrays
                /\ lists' = r.heap.lists
                /\ locals' = [locals EXCEPT
                                 !.scaled_input_images = r.images,
                                 !.scaled_input_cams = r.cams]
    /\ UNCHANGED <<FLAGS, py, sample_list, cursor, counter, emitted>>
    /\ UNCHANGED camVars /\ UNCHANGED pfmVars
    /\ UNCHANGED pipeVars /\ UNCHANGED lossVars
    /\ UNCHANGED cropVars

\* lines 143-144: crop_mvs_input(scaled_input_images, scaled_input_cams)
GenCrop ==
    /\ pc = "crop"
    /\ LET r == crop_mvs_input(Heap, locals.scaled_input_images,
                               locals.scaled_input_cams)
       IN  /\ pc' = "center"
           /\ arrays' = r.heap.arrays
           /\ lists' = r.heap.lists
           /\ locals' = [locals EXCEPT !.croped_images = r.images,
                                       !.croped_cams = r.cams]
    /\ UNCHANGED <<FLAGS, py, sample_list, cursor, counter, emitted>>
    /\ UNCHANGED camVars /\ UNCHANGED pfmVars
    /\ UNCHANGED pipeVars /\ UNCHANGED lossVars
    /\ UNCHANGED cropVars

\* lines 147-149: centered_images, a new list
GenCenter ==
    /\ pc = "center"
    /\ pc' = "sample"
    /\ lists' = Append(lists,
          [k \in 1..FLAGS.view_num |->
              center_image(lists[locals.croped_images][k])])
    /\ locals' = [locals EXCEPT !.centered_images = Len(lists) + 1]
    /\ UNCHANGED <<arrays, FLAGS, py, sample_list, cursor, counter, emitted>>
    /\ UNCHANGED camVars /\ UNCHANGED pfmVars
    /\ UNCHANGED pipeVars /\ UNCHANGED lossVars
    /\ UNCHANGED cropVars

\* lines 152-154: real_cams = np.copy(croped_cams), then
\* scaled_cams = scale_mvs_camera(croped_cams, scale=FLAGS.sample_scale)
GenSampleCams ==
    /\ pc = "sample"
    /\ LET c == np_copy_cams(Heap, locals.croped_cams)
           r == scale_mvs_camera(c.heap, locals.croped_cams,
                                 FLAGS.sample_scale)
       IN  /\ pc' = "stack"
           /\ arrays' = r.heap.arrays
           /\ lists' = r.heap.lists
           /\ locals' = [locals EXCEPT !.real_cams = c.ret,
                                       !.scaled_cams = r.cams]
    /\ UNCHANGED <<FLAGS, py, sample_list, cursor, counter, emitted>>
    /\ UNCHANGED camVars /\ UNCHANGED pfmVars
    /\ UNCHANGED pipeVars /\ UNCHANGED lossVars
    /\ UNCHANGED cropVars

\* lines 157-173: the low-resolution images, the three np.stack calls,
\* self.counter += 1 and the yield
GenYield ==
    /\ pc = "stack"
    /\ LET croped == lists[locals.croped_images]
           n == FLAGS.view_num
           scaled == [k \in 1..n |-> scale_image(croped[k], FLAGS.sample_scale)]
           exc == IF \E k \in 1..n : ResizeFails(croped[k], FLAGS.sample_scale)
                  THEN "cv2.error"
                  ELSE IF StackFails(scaled) \/ StackFails(croped)
                  THEN "ValueError"
                  ELSE "none"
       IN  IF exc # "none"
           THEN /\ pc' = "raised"
                /\ locals' = [locals EXCEPT !.exc = exc]
                /\ UNCHANGED <<counter, emitted>>
           ELSE /\ pc' = "suspended"
                /\ counter' = counter + 1
                /\ emitted' =
                      [scaled_images |-> scaled,
                       centered_images |-> lists[locals.centered_images],
                       scaled_cams |->
                           [k \in 1..n |-> arrays[lists[locals.scaled_cams][k]]],
                       image_index |-> locals.image_index]
                /\ UNCHANGED locals
    /\ UNCHANGED <<arrays, lists, FLAGS, py, sample_list, cursor>>
    /\ UNCHANGED camVars /\ UNCHANGED pfmVars
    /\ UNCHANGED pipeVars /\ UNCHANGED lossVars
    /\ UNCHANGED cropVars

Next ==
    \/ GenPull \/ GenLoad \/ GenResizeScale \/ GenScale \/ GenCrop
    \/ GenCenter \/ GenSampleCams \/ GenYield

Spec == Init /\ [][Next]_vars

(***************************************************************************)
(* Properties of the generator: the shared resize scale and the heap       *)
(* effects of the stages.                                                  *)
(***************************************************************************)
\* the sample being processed, and its views' native sizes
Data == sample_list[cursor]
NativeH(v) == NativeSize(v)[1]
NativeW(v) == NativeSize(v)[2]

\* max(maxH / nativeH, maxW / nativeW) of one view
ViewScale(v) ==
    RMax(Rat(FLAGS.max_h, NativeH(v)), Rat(FLAGS.max_w, NativeW(v)))

\* s is the maximum of the view scales of the sample
IsSharedScale(s, data) ==
    /\ \E k \in 1..Len(data) : s = ViewScale(data[k])
    /\ \A k \in 1..Len(data) : RLe(ViewScale(data[k]), s)

\* the shared scale of the sample exceeds 1.0
SharedScaleAboveOne(data) ==
    \E s \in {ViewScale(data[k]) : k \in 1..Len(data)} :
        IsSharedScale(s, data) /\ RGt(s, RInt(1))

ScaledImages == lists[locals.scaled_input_images]

\* C1 (as stated): for every sample whose shared scale is accepted, after
\* every view is resized by the shared scale each scaled view has
\* height <= maxH and width <= maxW.
C1_NoViewExceedsBox ==
    (pc = "crop" /\ FLAGS.adaptive_scaling
        /\ RLe(locals.resize_scale, RInt(1)))
    => \A k \in 1..FLAGS.view_num :
          ScaledImages[k].h <= FLAGS.max_h /\ ScaledImages[k].w <= FLAGS.max_w

\* C1 (amended): for every sample whose shared scale is accepted, after
\* every view is resized by the shared scale every view covers the
\* bounding box: each scaled view has height >= maxH and width >= maxW,
\* and some view meets the box exactly in height or in width.
C1_EveryViewCoversBox ==
    (pc = "crop" /\ FLAGS.adaptive_scaling
        /\ RLe(locals.resize_scale, RInt(1)))
    => /\ \A k \in 1..FLAGS.view_num :
             /\ ScaledImages[k].h >= FLAGS.max_h
             /\ ScaledImages[k].w >= FLAGS.max_w
       /\ \E k \in 1..FLAGS.view_num :
             \/ ScaledImages[k].h = FLAGS.max_h
             \/ ScaledImages[k].w = FLAGS.max_w

\* a sample of two sizes was resized, and its larger view overhangs the box
C1_Witness ==
    /\ pc = "crop" /\ FLAGS.adaptive_scaling
    /\ RLe(locals.resize_scale, RInt(1))
    /\ \E k \in 1..FLAGS.view_num : ScaledImages[k].h > FLAGS.max_h
    /\ \E k \in 1..FLAGS.view_num : ScaledImages[k].h = FLAGS.max_h

\* C2: with adaptive scaling the scale computed for a sample is the
\* maximum over its views of max(maxH / nativeH, maxW / nativeW); that one
\* value resizes every view's image (to the rounded product of each side)
\* and multiplies fx, fy, cx, cy of every view's camera, whose other
\* entries stay as they were loaded; views of (768, 1024) and (600, 800) under a
\* 384 x 512 box get 0.64.
C2_SharedScaleIsMaxOfViewScales ==
    [][/\ (pc = "resize" /\ pc' = "scale" /\ FLAGS.adaptive_scaling)
          => /\ IsSharedScale(locals'.resize_scale, Data)
             /\ ({NativeSize(Data[k]) : k \in 1..Len(Data)}
                     = {<<768, 1024>>, <<600, 800>>}
                 /\ FLAGS.max_h = 384 /\ FLAGS.max_w = 512)
                => locals'.resize_scale = Rat(16, 25)
       /\ (pc = "scale" /\ pc' = "crop")
          => \A k \in 1..FLAGS.view_num :
               LET v == SlotView(Data, k - 1)
                   s == locals.resize_scale
                   image == lists'[locals'.scaled_input_images][k]
                   loaded == arrays[lists[locals.cams][k]]
                   cam == arrays'[lists'[locals'.scaled_input_cams][k]]
               IN  /\ image.h = cvRound(RMul(RInt(NativeH(v)), s))
                   /\ image.w = cvRound(RMul(RInt(NativeW(v)), s))
                   /\ Fx(cam) = RMul(Fx(loaded), s)
                   /\ Fy(cam) = RMul(Fy(loaded), s)
                   /\ Cx(cam) = RMul(Cx(loaded), s)
                   /\ Cy(cam) = RMul(Cy(loaded), s)
                   /\ cam = [loaded EXCEPT ![1][0][0] = Fx(cam),
                                           ![1][1][1] = Fy(cam),
                                           ![1][0][2] = Cx(cam),
                                           ![1][1][2] = Cy(cam)]]_vars

\* the example sample was resized by 0.64
C2_Witness ==
    /\ pc = "crop" /\ FLAGS.adaptive_scaling
    /\ Data = <<0, 1>> /\ FLAGS.max_h = 384 /\ FLAGS.max_w = 512
    /\ locals.resize_scale = Rat(16, 25)
    /\ ScaledImages[1].h = 492 /\ ScaledImages[2].h = 384

ContainsSmallView(data) ==
    \E k \in 1..Len(data) : NativeSize(data[k]) = <<300, 400>>

\* C3: the generator exits at the scale computation exactly when the
\* shared scale of the sample exceeds 1.0 and goes on to resize otherwise;
\* after the exit nothing more happens, so no batch is emitted; every
\* emitted batch was resized by a scale of at most 1, and none comes from
\* a sample with a (300, 400) view under a 384 x 512 box.
C3_RejectedIffScaleAboveOne ==
    [][/\ pc = "resize"
          => /\ pc' = "exited"
                <=> (FLAGS.adaptive_scaling /\ SharedScaleAboveOne(Data))
             /\ pc' \in {"exited", "scale"}
       /\ pc # "exited"
       /\ counter' # counter
          => /\ RLe(locals.resize_scale, RInt(1))
             /\ ~(FLAGS.adaptive_scaling /\ ContainsSmallView(Data)
                    /\ FLAGS.max_h = 384 /\ FLAGS.max_w = 512)]_vars

\* a sample with a (300, 400) view was rejected under a 384 x 512 box
C3_Witness ==
    /\ pc = "exited" /\ ContainsSmallView(Data)
    /\ FLAGS.max_h = 384 /\ FLAGS.max_w = 512

ExistingArraysKept == \A i \in 1..Len(arrays) : arrays'[i] = arrays[i]

\* C4 (as stated): no stage changes a camera array that existed before
\* it, and the camera list a stage returns is not the list it was given.
C4_StagesNeverMutateNorAlias ==
    [][/\ (pc = "scale" /\ pc' = "crop")
          => /\ ExistingArraysKept
             /\ locals'.scaled_input_cams # locals.cams
       /\ (pc = "crop" /\ pc' = "center")
          => /\ ExistingArraysKept
             /\ locals'.croped_cams # locals.scaled_input_cams
       /\ (pc = "sample" /\ pc' = "stack")
          => /\ ExistingArraysKept
             /\ locals'.scaled_cams # locals.croped_cams]_vars

\* C4 (amended): scale_mvs_input and scale_mvs_camera leave every camera
\* array that existed before them unchanged and put newly made arrays
\* into the list they were given; crop_mvs_input makes no array and
\* changes in each camera of the list only cx and cy, reduced in place by
\* the crop origin; the lists cams, scaled_input_cams, croped_cams and
\* scaled_cams are one list object, and only real_cams is a separate list
\* of separate arrays holding the cropped values.
C4_OnlyCropWritesInPlace ==
    [][/\ (pc = "scale" /\ pc' = "crop")
          => /\ ExistingArraysKept
             /\ locals'.scaled_input_cams = locals.cams
             /\ \A k \in 1..FLAGS.view_num :
                   lists'[locals.cams][k] > Len(arrays)
       /\ (pc = "crop" /\ pc' = "center")
          => /\ Len(arrays') = Len(arrays)
             /\ locals'.croped_cams = locals.scaled_input_cams
             /\ lists'[locals.scaled_input_cams]
                   = lists[locals.scaled_input_cams]
             /\ \A i \in 1..Len(arrays) :
                   arrays[i] = [arrays'[i] EXCEPT ![1][0][2] = Cx(arrays[i]),
                                                  ![1][1][2] = Cy(arrays[i])]
             /\ \A k \in 1..FLAGS.view_num :
                   LET id == lists[locals.scaled_input_cams][k]
                       cw == CropWindow(lists[locals.scaled_input_images][k])
                   IN  /\ Cx(arrays'[id])
                             = RSub(Cx(arrays[id]), RInt(cw.start_w))
                       /\ Cy(arrays'[id])
                             = RSub(Cy(arrays[id]), RInt(cw.start_h))
       /\ (pc = "sample" /\ pc' = "stack")
          => /\ ExistingArraysKept
             /\ locals'.scaled_cams = locals.croped_cams
             /\ locals'.real_cams # locals.croped_cams
             /\ \A k \in 1..FLAGS.view_num :
                   LET real == lists'[locals'.real_cams][k]
                       scaled == lists'[locals'.scaled_cams][k]
                       croped == lists[locals.croped_cams][k]
                   IN  /\ real > Len(arrays) /\ scaled > Len(arrays)
                       /\ real # scaled
                       /\ arrays'[real] = arrays[croped]]_vars

\* all the stages have run on a sample whose crop origin is not zero:
\* one list served every stage and real_cams is apart from it
C4_Witness ==
    /\ pc = "stack"
    /\ locals.scaled_cams = locals.cams
    /\ locals.real_cams # locals.cams
    /\ \E k \in 1..FLAGS.view_num :
          lists[locals.croped_images][k].c0 > 0

(***************************************************************************)
(* loss.py.  The tensors are float32; the model computes with exact        *)
(* non-negative rationals extended by inf and nan, which is what the       *)
(* float operations of loss.py produce up to rounding.  The 1e-6 and 1e-7  *)
(* of the denominators make the numbers long, so naturals are sequences    *)
(* of base-10000 digits, least significant first, without leading zeros.   *)
(***************************************************************************)
RECURSIVE BNat(_)
BNat(n) == IF n = 0 THEN <<>> ELSE <<n % 10000>> \o BNat(n \div 10000)

RECURSIVE BAddC(_, _, _)
BAddC(a, b, c) ==
    IF a = <<>> /\ b = <<>> THEN (IF c = 0 THEN <<>> ELSE <<c>>)
    ELSE LET x == IF a = <<>> THEN 0 ELSE Head(a)
             y == IF b = <<>> THEN 0 ELSE Head(b)
             t == x + y + c
         IN  <<t % 10000>> \o BAddC(IF a = <<>> THEN <<>> ELSE Tail(a),
                                    IF b = <<>> THEN <<>> ELSE Tail(b),
                                    t \div 10000)
BAdd(a, b) == BAddC(a, b, 0)

RECURSIVE BMulDigit(_, _, _)
BMulDigit(a, m, c) ==
    IF a = <<>> THEN (IF c = 0 THEN <<>> ELSE <<c>>)
    ELSE LET t == Head(a) * m + c
         IN  <<t % 10000>> \o BMulDigit(Tail(a), m, t \div 10000)

RECURSIVE BMul(_, _)
BMul(a, b) ==
    IF a = <<>> \/ b = <<>> THEN <<>>
    ELSE LET rest == BMul(a, Tail(b))
             high == IF rest = <<>> THEN <<>> ELSE <<0>> \o rest
             low == IF Head(b) = 0 THEN <<>> ELSE BMulDigit(a, Head(b), 0)
         IN  BAdd(low, high)

\* a < b, a = b or a > b as -1, 0, 1
RECURSIVE BCmpFrom(_, _, _)
BCmpFrom(a, b, i) ==
    IF i = 0 THEN 0
    ELSE IF a[i] < b[i] THEN -1
    ELSE IF a[i] > b[i] THEN 1
    ELSE BCmpFrom(a, b, i - 1)
BCmp(a, b) ==
    IF Len(a) < Len(b) THEN -1
    ELSE IF Len(a) > Len(b) THEN 1
    ELSE BCmpFrom(a, b, Len(a))

\* strip the leading zeros (the tail of the sequence)
RECURSIVE BTrim(_)
BTrim(a) ==
    IF a = <<>> THEN <<>>
    ELSE IF a[Len(a)] = 0 THEN BTrim(SubSeq(a, 1, Len(a) - 1))
    ELSE a

\* a - b for a >= b
RECURSIVE BSubC(_, _, _)
BSubC(a, b, c) ==
    IF a = <<>> THEN <<>>
    ELSE LET y == IF b = <<>> THEN 0 ELSE Head(b)
             t == Head(a) - y - c
         IN  <<t % 10000>> \o BSubC(Tail(a),
                                    IF b = <<>> THEN <<>> ELSE Tail(b),
                                    IF t < 0 THEN 1 ELSE 0)
BSub(a, b) == BTrim(BSubC(a, b, 0))

\* a float: a finite value n / d >= 0, or inf, or nan
Fin(n, d) == [k |-> "fin", n |-> n, d |-> d]
FNum(n, d) == Fin(BNat(n), BNat(d))
FInt(n) == FNum(n, 1)
FZero == FInt(0)
FOne == FInt(1)
FInf == [k |-> "inf", n |-> <<>>, d |-> <<>>]
FNaN == [k |-> "nan", n |-> <<>>, d |-> <<>>]
IsNaN(x) == x.k = "nan"
IsInf(x) == x.k = "inf"
IsZero(x) == x.k = "fin" /\ x.n = <<>>

\* the same float value
FEq(x, y) ==
    /\ x.k = y.k
    /\ x.k = "fin" => BMul(x.n, y.d) = BMul(y.n, x.d)

\* x <= y and x < y as floats compare: never true of a nan
FLe(x, y) ==
    /\ ~IsNaN(x) /\ ~IsNaN(y)
    /\ \/ IsInf(y)
       \/ ~IsInf(x) /\ BCmp(BMul(x.n, y.d), BMul(y.n, x.d)) <= 0
FLt(x, y) == FLe(x, y) /\ ~FEq(x, y)

FAdd(x, y) ==
    IF IsNaN(x) \/ IsNaN(y) THEN FNaN
    ELSE IF IsInf(x) \/ IsInf(y) THEN FInf
    ELSE IF IsZero(x) THEN y
    ELSE IF IsZero(y) THEN x
    ELSE IF x.d = y.d THEN Fin(BAdd(x.n, y.n), x.d)
    ELSE Fin(BAdd(BMul(x.n, y.d), BMul(y.n, x.d)), BMul(x.d, y.d))

\* tf.abs(x - y)
FAbsDiff(x, y) ==
    IF IsNaN(x) \/ IsNaN(y) THEN FNaN
    ELSE IF IsInf(x) /\ IsInf(y) THEN FNaN
    ELSE IF IsInf(x) \/ IsInf(y) THEN FInf
    ELSE LET a == BMul(x.n, y.d)
             b == BMul(y.n, x.d)
         IN  Fin(IF BCmp(a, b) >= 0 THEN BSub(a, b) ELSE BSub(b, a),
                 BMul(x.d, y.d))

FMul(x, y) ==
    IF IsNaN(x) \/ IsNaN(y) THEN FNaN
    ELSE IF IsInf(x) \/ IsInf(y)
         THEN (IF IsZero(x) \/ IsZero(y) THEN FNaN ELSE FInf)
    ELSE IF IsZero(x) \/ IsZero(y) THEN FZero
    ELSE Fin(BMul(x.n, y.n), BMul(x.d, y.d))

FDiv(x, y) ==
    IF IsNaN(x) \/ IsNaN(y) THEN FNaN
    ELSE IF IsInf(y) THEN (IF IsInf(x) THEN FNaN ELSE FZero)
    ELSE IF IsInf(x) THEN FInf
    ELSE IF IsZero(y) THEN (IF IsZero(x) THEN FNaN ELSE FInf)
    ELSE IF IsZero(x) THEN FZero
    ELSE IF x.d = y.d THEN Fin(x.n, y.n)
    ELSE Fin(BMul(x.n, y.d), BMul(x.d, y.n))

\* tf.math.pow(x, e) for an exponent e that is a whole number
RECURSIVE FPow(_, _)
FPow(x, e) ==
    IF e = 0 THEN FOne
    ELSE IF e < 0 THEN FDiv(FOne, FPow(x, -e))
    ELSE FMul(x, FPow(x, e - 1))

\* tf.reduce_sum and tf.reduce_mean of a vector
RECURSIVE FSum(_)
FSum(xs) == IF xs = <<>> THEN FZero ELSE FAdd(Head(xs), FSum(Tail(xs)))
FMean(xs) == FDiv(FSum(xs), FInt(Len(xs)))

(***************************************************************************)
(* The loss functions.  A B x H x W x 1 tensor is a sequence over the      *)
(* batch of sequences over the pixels; a B x D x H x W probability volume  *)
(* is indexed [b][d][pixel] with d from 1.  A call returns the exception   *)
(* it raised ("none" if it returned), and the shape and the elements of    *)
(* the tensor it returned.                                                 *)
(***************************************************************************)
Returned(shape, values) == [exc |-> "none", shape |-> shape, values |-> values]
Raised(exc) == [exc |-> exc, shape |-> <<>>, values |-> <<>>]

Batch(t) == 1..Len(t)
Pixels(t, b) == 1..Len(t[b])

\* tf.cast(tf.not_equal(y_true, 0.0), dtype='float32')
mask_true(y_true) ==
    [b \in Batch(y_true) |->
        [p \in Pixels(y_true, b) |->
            IF IsZero(y_true[b][p]) THEN FZero ELSE FOne]]

\* tf.reduce_sum(t, axis=[1, 2, 3]): one sum per batch sample
ReduceSumPerSample(t) == [b \in Batch(t) |-> FSum(t[b])]

\* tf.reduce_sum(t): the sum of all the elements
ReduceSumAll(t) == FSum(ReduceSumPerSample(t))

\* masked_loss, lines 35-56
masked_loss(y_true, y_pred, interval, alpha, beta) ==
    IF Len(interval) # Len(y_pred) THEN Raised("InvalidArgumentError")
    ELSE
    LET mask == mask_true(y_true)
        counted == [b \in Batch(y_true) |->
                       FAdd(FSum(mask[b]), FNum(1, 1000000))]
        denominator == IF beta # 1
                       THEN [b \in Batch(y_true) |-> FPow(counted[b], beta)]
                       ELSE counted
        error(b, p) ==
            LET epsilon == FMul(FNum(5, 1000), y_true[b][p])
                e == FAdd(FAbsDiff(y_true[b][p], y_pred[b][p]), epsilon)
            IN  IF alpha # 1 THEN FPow(e, alpha) ELSE e
        numerator ==
            ReduceSumPerSample(
                [b \in Batch(y_true) |->
                    [p \in Pixels(y_true, b) |->
                        FMul(error(b, p), mask[b][p])]])
        normalization ==
            [b \in Batch(y_true) |->
                FDiv(FPow(FMean(denominator), beta - 1),
                     FPow(interval[b], alpha))]
        total == FSum([b \in Batch(y_true) |->
                          FDiv(numerator[b], denominator[b])])
    IN  Returned(<<Len(y_pred)>>,
                 [b \in Batch(y_true) |-> FMul(total, normalization[b])])

\* a comparison that leaves out the threshold itself
less_equal_strict(x, k) == FLt(x, k)

\* tf.less_equal(abs_diff_image, 1.0) and (..., 3.0)
less_equal(x, k) == FLe(x, k)

\* a denominator without the 1e-6
denom_noEpsilon(mask) == ReduceSumAll(mask)

\* denom = tf.abs(tf.reduce_sum(mask_true)) + 1e-6, lines 64 and 78
denom(mask) == FAdd(ReduceSumAll(mask), FNum(1, 1000000))

\* the body the two accuracy functions share, with the literal threshold k
less_k_percentage(y_true, y_pred, interval, k) ==
    IF Len(interval) # Len(y_pred) THEN Raised("InvalidArgumentError")
    ELSE
    LET mask == mask_true(y_true)
        less_image ==
            [b \in Batch(y_true) |->
                [p \in Pixels(y_true, b) |->
                    LET abs_diff == FDiv(FAbsDiff(y_true[b][p], y_pred[b][p]),
                                         interval[b])
                    IN  FMul(mask[b][p],
                             IF less_equal(abs_diff, k) THEN FOne ELSE FZero)]]
    IN  Returned(<<>>, <<FDiv(ReduceSumAll(less_image), denom(mask))>>)

\* lines 59-70
less_one_percentage(y_true, y_pred, interval) ==
    less_k_percentage(y_true, y_pred, interval, FInt(1))

\* lines 73-84
less_three_percentage(y_true, y_pred, interval) ==
    less_k_percentage(y_true, y_pred, interval, FInt(3))

\* the value of a short natural, and a finite float as a small fraction
RECURSIVE BVal(_)
BVal(a) == IF a = <<>> THEN 0 ELSE Head(a) + 10000 * BVal(Tail(a))
FRat(x) == Rat(BVal(x.n), BVal(x.d))

\* tf.round: the nearest integer, a tie going to the even one
tf_round(x) ==
    LET q == (2 * x[1] + x[2]) \div (2 * x[2])
        tie == (2 * x[1] + x[2]) % (2 * x[2]) = 0
    IN  IF tie /\ q % 2 # 0 THEN q - 1 ELSE q

\* -log(p) in units of log 2, for the probabilities 1, 1/2, 1/4 and 0;
\* -(a * log(p)) is computed as a * (-log(p)), which is the same float
NegLog(p) ==
    IF FEq(p, FOne) THEN FZero
    ELSE IF FEq(p, FNum(1, 2)) THEN FInt(1)
    ELSE IF FEq(p, FNum(1, 4)) THEN FInt(2)
    ELSE IF IsZero(p) THEN FInf
    ELSE FNaN

\* lines 110-123: the bin index of a pixel of the ground truth
gt_index_image(gt_depth_image, depth_start, depth_interval, b, p) ==
    LET gt == FRat(gt_depth_image[b][p])
        ratio == Rat(RSub(gt, FRat(depth_start[b]))[1]
                        * FRat(depth_interval[b])[2],
                     RSub(gt, FRat(depth_start[b]))[2]
                        * FRat(depth_interval[b])[1])
    IN  IF IsZero(gt_depth_image[b][p]) THEN 0 ELSE tf_round(ratio)

\* lines 125-134: the masked cross entropy, in units of log 2
masked_cross_entropy(prob_volume, gt_depth_image, depth_num, depth_start, depth_interval) ==
    LET mask == mask_true(gt_depth_image)
        valid_pixel_num ==
            [b \in Batch(gt_depth_image) |->
                FAdd(FSum(mask[b]), FNum(1, 10000000))]
        cross_entropy_image(b, p) ==
            LET index == gt_index_image(gt_depth_image, depth_start,
                                        depth_interval, b, p)
            IN  FSum([d \in 1..depth_num |->
                         FMul(IF index = d - 1 THEN FOne ELSE FZero,
                              NegLog(prob_volume[b][d][p]))])
        per_sample ==
            ReduceSumPerSample(
                [b \in Batch(gt_depth_image) |->
                    [p \in Pixels(gt_depth_image, b) |->
                        FMul(mask[b][p], cross_entropy_image(b, p))]])
    IN  FSum([b \in Batch(gt_depth_image) |->
                 FDiv(per_sample[b], valid_pixel_num[b])])

\* tf.argmax(prob_volume, axis=1): the first bin of the largest value
ArgMax(prob_volume, b, p, depth_num) ==
    CHOOSE d \in 0..(depth_num - 1) :
        /\ \A e \in 0..(depth_num - 1) :
              FLe(prob_volume[b][e + 1][p], prob_volume[b][d + 1][p])
        /\ \A e \in 0..(d - 1) :
              ~FEq(prob_volume[b][e + 1][p], prob_volume[b][d + 1][p])

\* lines 137-138: the winner-take-all depth map
wta_depth_map(prob_volume, depth_num, depth_start, depth_interval) ==
    [b \in Batch(prob_volume) |->
        [p \in 1..Len(prob_volume[b][1]) |->
            FAdd(FMul(FInt(ArgMax(prob_volume, b, p, depth_num)),
                      depth_interval[b]),
                 depth_start[b])]]

\* mvsnet_classification_loss, lines 106-150: the cross entropy and the
\* winner-take-all map are built, then line 141 looks up the name
\* non_zero_mean_absolute_diff, which loss.py neither defines nor imports
mvsnet_classification_loss(prob_volume, gt_depth_image, depth_num, depth_start, depth_interval) ==
    IF \/ Len(depth_start) # Len(gt_depth_image)
       \/ Len(depth_interval) # Len(gt_depth_image)
    THEN Raised("InvalidArgumentError")
    ELSE Raised("NameError")

(***************************************************************************)
(* The harness of loss.py: a ground truth, two predictions that differ in  *)
(* at most one pixel, and one call of a loss function on each of them.     *)
(* An image is 1 x 2 pixels; the probability volumes have three bins and   *)
(* the depth of bin 0 is 200 in every sample.                              *)
(***************************************************************************)
MaxBatch == 2         \* largest batch size

\* a sample: the ground truth and the prediction of its two pixels
Sample(gt, pred) == [gt |-> gt, pred |-> pred]
LossSamples ==
    {Sample(<<FZero, FZero>>, <<FInt(200), FInt(200)>>),
     Sample(<<FInt(200), FZero>>, <<FInt(200), FInt(200)>>),
     Sample(<<FInt(200), FZero>>, <<FInt(203), FInt(200)>>),
     Sample(<<FInt(200), FInt(203)>>, <<FInt(203), FInt(200)>>)}
OtherValues == {FInt(204), FNaN}

RECURSIVE SeqsOfLen(_, _)
SeqsOfLen(S, n) ==
    IF n = 0 THEN {<<>>}
    ELSE {Append(q, x) : q \in SeqsOfLen(S, n - 1), x \in S}

\* the interval tensors tried for a batch of n: all 1, alternating 3 and
\* 1, and (for n > 1) a tensor of one element only
IntervalsFor(n) ==
    {[b \in 1..n |-> FInt(1)],
     [b \in 1..n |-> IF b % 2 = 1 THEN FInt(3) ELSE FInt(1)]}
        \cup (IF n > 1 THEN {<<FInt(1)>>} ELSE {})

\* the predictions that differ from pred in at most one pixel, the second
\* pixel of a sample
Repredictions(pred) ==
    {pred} \cup {[pred EXCEPT ![b][2] = v] :
                    b \in 1..Len(pred), v \in OtherValues}

Dists == <<<<FNum(1, 2), FNum(1, 4), FNum(1, 4)>>,
           <<FNum(1, 4), FNum(1, 2), FNum(1, 4)>>,
           <<FOne, FZero, FZero>>>>
DepthNum == Len(Dists[1])
BinZeroDepth == [b \in 1..Len(lossGt) |-> FInt(200)]

\* the pixels in which the two predictions differ, and one of them
DiffPixels ==
    {x \in (1..Len(lossGt)) \X (1..2) :
        lossPredA[x[1]][x[2]] # lossPredB[x[1]][x[2]]}
DiffPixel == IF DiffPixels = {} THEN <<1, 2>> ELSE CHOOSE x \in DiffPixels : TRUE

\* a volume with distribution d at every pixel but pixel at, which has e
ProbVolume(d, e, at) ==
    [b \in 1..Len(lossGt) |->
        [bin \in 1..DepthNum |->
            [p \in 1..2 |->
                IF <<b, p>> = at THEN Dists[e][bin] ELSE Dists[d][bin]]]]
ProbA == ProbVolume(lossCall.d, lossCall.d, DiffPixel)
ProbB == ProbVolume(lossCall.d, lossCall.e, DiffPixel)

NoCall == [fn |-> "none", alpha |-> 0, beta |-> 0, d |-> 0, e |-> 0]

InitLoss ==
    /\ arrays = <<>> /\ lists = <<>>
    /\ FLAGS = Flags(1, 768, 1024, Rat(1, 1), TRUE) /\ py = 2
    /\ \E n \in 1..MaxBatch :
          /\ \E batch \in SeqsOfLen(LossSamples, n) :
                /\ lossGt = [b \in 1..n |-> batch[b].gt]
                /\ lossPredA = [b \in 1..n |-> batch[b].pred]
          /\ lossInterval \in IntervalsFor(n)
    /\ lossPredB \in Repredictions(lossPredA)
    /\ lossCall = NoCall
    /\ lossOutA = Raised("pending") /\ lossOutB = Raised("pending")
    /\ IdleCam /\ IdlePfm /\ IdleGen /\ IdlePipe /\ IdleCrop

LossFrame ==
    /\ UNCHANGED <<lossGt, lossPredA, lossPredB, lossInterval>>
    /\ UNCHANGED heapVars /\ UNCHANGED camVars /\ UNCHANGED pfmVars
    /\ UNCHANGED genVars /\ UNCHANGED pipeVars
    /\ UNCHANGED cropVars

LossMasked ==
    /\ lossCall.fn = "none"
    /\ \E alpha \in {1, 2}, beta \in {0, 1, 2} :
          /\ lossCall' = [NoCall EXCEPT !.fn = "masked_loss",
                                        !.alpha = alpha, !.beta = beta]
          /\ lossOutA' = masked_loss(lossGt, lossPredA, lossInterval,
                                     alpha, beta)
          /\ lossOutB' = masked_loss(lossGt, lossPredB, lossInterval,
                                     alpha, beta)
    /\ LossFrame

LossLessOne ==
    /\ lossCall.fn = "none"
    /\ lossCall' = [NoCall EXCEPT !.fn = "less_one_percentage"]
    /\ lossOutA' = less_one_percentage(lossGt, lossPredA, lossInterval)
    /\ lossOutB' = less_one_percentage(lossGt, lossPredB, lossInterval)
    /\ LossFrame

LossLessThree ==
    /\ lossCall.fn = "none"
    /\ lossCall' = [NoCall EXCEPT !.fn = "less_three_percentage"]
    /\ lossOutA' = less_three_percentage(lossGt, lossPredA, lossInterval)
    /\ lossOutB' = less_three_percentage(lossGt, lossPredB, lossInterval)
    /\ LossFrame

LossClassification ==
    /\ lossCall.fn = "none"
    /\ \E d \in {1, 2}, e \in 1..Len(Dists) :
          /\ lossCall' = [NoCall EXCEPT !.fn = "mvsnet_classification_loss",
                                        !.d = d, !.e = e]
          /\ lossOutA' = mvsnet_classification_loss(
                             ProbVolume(d, d, DiffPixel), lossGt, DepthNum,
                             BinZeroDepth, lossInterval)
          /\ lossOutB' = mvsnet_classification_loss(
                             ProbVolume(d, e, DiffPixel), lossGt, DepthNum,
                             BinZeroDepth, lossInterval)
    /\ LossFrame

NextLoss == LossMasked \/ LossLessOne \/ LossLessThree \/ LossClassification
SpecLoss == InitLoss /\ [][NextLoss]_vars

(***************************************************************************)
(* Properties of the loss functions.                                       *)
(***************************************************************************)
ValidPixels(b) == {p \in 1..Len(lossGt[b]) : ~IsZero(lossGt[b][p])}
ValidCount(b) == Cardinality(ValidPixels(b))

\* the sum of xs[p] over the pixels p of the set ps
RECURSIVE SumOver(_, _)
SumOver(xs, ps) ==
    IF ps = {} THEN FZero
    ELSE LET p == CHOOSE q \in ps : TRUE
         IN  FAdd(xs[p], SumOver(xs, ps \ {p}))

\* V_b, floored by the 1e-6 that keeps it from being zero
FlooredCount(b) == FAdd(FInt(ValidCount(b)), FNum(1, 1000000))

\* the value the formula of the claim gives for a prediction and one
\* interval
ClaimedLoss(pred, interval, alpha, beta) ==
    LET error(b) ==
            [p \in 1..Len(lossGt[b]) |->
                FPow(FAdd(FAbsDiff(lossGt[b][p], pred[b][p]),
                          FMul(FNum(5, 1000), lossGt[b][p])), alpha)]
        term(b) == FDiv(SumOver(error(b), ValidPixels(b)),
                        FPow(FlooredCount(b), beta))
        counts == [b \in 1..Len(lossGt) |-> FlooredCount(b)]
    IN  FDiv(FMul(FSum([b \in 1..Len(lossGt) |-> term(b)]),
                  FPow(FMean(counts), beta - 1)),
             FPow(interval, alpha))

\* C11 (as stated): masked_loss returns one scalar, equal to
\* [sum over the samples b of (sum over the valid pixels of
\* (|gt - pred| + 0.005 * gt)^alpha) / V_b^beta] * mean_b(V_b)^(beta - 1)
\* / interval^alpha, for every alpha and beta and every batch size.
C11_LossIsTheNormalisedBatchSum ==
    lossCall.fn = "masked_loss"
    => /\ lossOutA.exc = "none"
       /\ Len(lossOutA.values) = 1
       /\ FEq(lossOutA.values[1],
              ClaimedLoss(lossPredA, lossInterval[1],
                          lossCall.alpha, lossCall.beta))

AllPixels == {x \in (1..Len(lossGt)) \X (1..2) : TRUE}
AllValid == {x \in AllPixels : ~IsZero(lossGt[x[1]][x[2]])}
IsAccuracyCall ==
    lossCall.fn \in {"less_one_percentage", "less_three_percentage"}
Threshold == IF lossCall.fn = "less_one_percentage" THEN FInt(1) ELSE FInt(3)

\* the valid pixels whose error is at most Threshold intervals
WithinThreshold(pred) ==
    {x \in AllValid :
        FLe(FDiv(FAbsDiff(lossGt[x[1]][x[2]], pred[x[1]][x[2]]),
                 lossInterval[x[1]]),
            Threshold)}

\* pred equals gt at every valid pixel, and some pixel is valid
Saturated(pred) ==
    /\ AllValid # {}
    /\ \A x \in AllValid : FEq(pred[x[1]][x[2]], lossGt[x[1]][x[2]])

\* C12 (as stated): the accuracy is the number of valid pixels with
\* |gt - pred| / interval <= k divided by the number of valid pixels, and
\* it is 1.0 when pred equals gt at every valid pixel, interval > 0 and a
\* pixel is valid.
C12_AccuracyIsFractionOfValid ==
    (IsAccuracyCall /\ lossOutA.exc = "none" /\ AllValid # {})
    => /\ FEq(lossOutA.values[1],
              FDiv(FInt(Cardinality(WithinThreshold(lossPredA))),
                   FInt(Cardinality(AllValid))))
       /\ Saturated(lossPredA) => FEq(lossOutA.values[1], FOne)

\* C12 (amended): the accuracy is the number of valid pixels with
\* |gt - pred| / interval <= k divided by (the number of valid pixels of
\* the batch + 1e-6); when pred equals gt at every valid pixel it is at
\* least 1 - 1e-6 and at most 1.
C12_AccuracyIsFractionOfValidPlusEpsilon ==
    (IsAccuracyCall /\ lossOutA.exc = "none")
    => /\ lossOutA.shape = <<>> /\ Len(lossOutA.values) = 1
       /\ FEq(lossOutA.values[1],
              FDiv(FInt(Cardinality(WithinThreshold(lossPredA))),
                   FAdd(FInt(Cardinality(AllValid)), FNum(1, 1000000))))
       /\ Saturated(lossPredA)
          => /\ FLe(FNum(999999, 1000000), lossOutA.values[1])
             /\ FLe(lossOutA.values[1], FOne)

\* an accuracy was computed for a prediction equal to gt at the valid
\* pixels, and came out below 1
C12_Witness ==
    /\ IsAccuracyCall /\ lossOutA.exc = "none"
    /\ Saturated(lossPredA)
    /\ FLt(lossOutA.values[1], FOne)

\* C13: when gt is zero at every pixel, the accuracy functions return 0
\* for every prediction (a nan among its values included) and either
\* threshold, without raising and without a nan from 0 / 0.
C13_NoValidPixelsGivesZero ==
    (IsAccuracyCall /\ AllValid = {} /\ Len(lossInterval) = Len(lossGt))
    => /\ lossOutA.exc = "none" /\ lossOutB.exc = "none"
       /\ FEq(lossOutA.values[1], FZero)
       /\ FEq(lossOutB.values[1], FZero)

\* an accuracy of 0 was returned for an all-zero gt and a prediction
\* holding a nan
C13_Witness ==
    /\ lossCall.fn = "less_three_percentage" /\ AllValid = {}
    /\ Len(lossGt) > 1
    /\ \E x \in AllPixels : IsNaN(lossPredB[x[1]][x[2]])
    /\ lossOutB.exc = "none" /\ IsZero(lossOutB.values[1])

\* two calls gave the same result
SameOut(x, y) ==
    /\ x.exc = y.exc /\ x.shape = y.shape
    /\ Len(x.values) = Len(y.values)
    /\ \A i \in 1..Len(x.values) : FEq(x.values[i], y.values[i])

\* the two predictions differ only where gt = 0
DifferOnlyWhereMasked ==
    \A x \in DiffPixels : IsZero(lossGt[x[1]][x[2]])

\* the pixel in which the two probability volumes differ has gt = 0
VolumesDifferOnlyWhereMasked == IsZero(lossGt[DiffPixel[1]][DiffPixel[2]])

\* C14 (as stated): for two predictions, or two probability volumes,
\* that agree at all valid pixels and differ only where gt = 0,
\* masked_loss and the accuracy functions return the same value, and so
\* does mvsnet_classification_loss for the masked cross entropy.
C14_MaskedPixelsDoNotCount ==
    /\ (lossCall.fn = "masked_loss" /\ DifferOnlyWhereMasked)
       => SameOut(lossOutA, lossOutB)
    /\ (IsAccuracyCall /\ DifferOnlyWhereMasked)
       => SameOut(lossOutA, lossOutB)
    /\ (lossCall.fn = "mvsnet_classification_loss"
          /\ VolumesDifferOnlyWhereMasked
          /\ Len(lossInterval) = Len(lossGt))
       => /\ lossOutA.exc = "none" /\ lossOutB.exc = "none"
          /\ FEq(masked_cross_entropy(ProbA, lossGt, DepthNum,
                                      BinZeroDepth, lossInterval),
                 masked_cross_entropy(ProbB, lossGt, DepthNum,
                                      BinZeroDepth, lossInterval))

\* the winner-take-all depth map of the first volume of the call
WtaA == wta_depth_map(ProbA, DepthNum, BinZeroDepth, lossInterval)

\* C15: every call of mvsnet_classification_loss (with one start and one
\* interval per sample) returns, after the cross entropy, the values of
\* masked_loss and of the two accuracies computed on the winner-take-all
\* depth map (argmax bin * interval + start) against gt.
C15_ClassificationReportsRegressionMetrics ==
    (lossCall.fn = "mvsnet_classification_loss"
        /\ Len(lossInterval) = Len(lossGt))
    => /\ lossOutA.exc = "none"
       /\ Len(lossOutA.values) >= 4
       /\ FEq(lossOutA.values[1],
              masked_cross_entropy(ProbA, lossGt, DepthNum, BinZeroDepth,
                                   lossInterval))
       /\ FEq(lossOutA.values[2],
              masked_loss(lossGt, WtaA, lossInterval, 1, 1).values[1])
       /\ FEq(lossOutA.values[3],
              less_one_percentage(lossGt, WtaA, lossInterval).values[1])
       /\ FEq(lossOutA.values[4],
              less_three_percentage(lossGt, WtaA, lossInterval).values[1])

(***************************************************************************)
(* The order of the batches of the generator.                              *)
(***************************************************************************)
\* C16: over a list of n >= 1 samples the generator does not run out: a
\* pull after k batches goes on to sample (k mod n) of the list, the
\* batch then yielded is built from that sample, and it carries the
\* integer read from the sample's reference file name.
C16_CyclesInListOrder ==
    [][/\ (pc = "suspended" /\ pc' # "suspended" /\ sample_list # <<>>)
          => /\ pc' = "load"
             /\ cursor' = (counter % Len(sample_list)) + 1
       /\ (pc = "stack" /\ pc' = "suspended")
          => /\ counter' = counter + 1
             /\ cursor = (counter % Len(sample_list)) + 1
             /\ emitted'.image_index = sample_list[cursor][1]
             /\ Format08(emitted'.image_index)
                   = splitext0(basename(ImagePath(sample_list[cursor][1])))
             /\ Len(emitted'.scaled_images) = FLAGS.view_num]_vars

\* the third batch of a list of two samples is built from the first again
C16_Witness ==
    /\ pc = "suspended" /\ counter = 3 /\ Len(sample_list) = 2
    /\ cursor = 1
    /\ sample_list[1][1] # sample_list[2][1]
    /\ emitted.image_index = sample_list[1][1]

(***************************************************************************)
(* mvsnet_pipeline: the generator behind a dataset that batches and        *)
(* prefetches, and the inference loop that saves every result.             *)
(***************************************************************************)
\* test.py line 198: prefetch(buffer_size=1)
buffer_size == 1

\* test.py line 180: os.path.join(FLAGS.dense_folder, 'depths_mvsnet'),
\* relative to dense_folder
output_folder_path ==
    <<"d", "e", "p", "t", "h", "s", "_", "m", "v", "s", "n", "e", "t">>

png == <<".", "p", "n", "g">>
pfm == <<".", "p", "f", "m">>
inverse_png == <<"_", "i", "n", "v", "e", "r", "s", "e", ".", "p", "n", "g">>

\* output_folder + ('/%08d' % out_index) + the rest of the name
OutPath(out_index, rest) ==
    output_folder_path \o <<"/">> \o Format08(out_index) \o rest

\* lines 288-295: the six paths of one result
init_depth_map_path(i) == OutPath(i, <<"_", "i", "n", "i", "t">> \o pfm)
prob_map_path(i) == OutPath(i, <<"_", "p", "r", "o", "b">> \o pfm)
out_ref_image_path(i) == OutPath(i, <<".", "j", "p", "g">>)
out_ref_cam_path(i) == OutPath(i, <<".", "t", "x", "t">>)
prob_png(i) == OutPath(i, <<"_", "p", "r", "o", "b">> \o png)
depth_png(i) == OutPath(i, <<"_", "d", "e", "p", "t", "h">> \o png)

\* str.replace(old, new): every occurrence of old, from the left
RECURSIVE str_replace(_, _, _)
str_replace(str, old, new) ==
    IF Len(str) < Len(old) THEN str
    ELSE IF SubSeq(str, 1, Len(old)) = old
    THEN new \o str_replace(SubSeq(str, Len(old) + 1, Len(str)), old, new)
    ELSE <<Head(str)>> \o str_replace(Tail(str), old, new)

\* a folder after a file was written at file_path (created or replaced)
Saved(folder, file_path) == folder \cup {file_path}

\* a depth map writer that saves the quantised map only
write_depth_map_plain(folder, file_path) == Saved(folder, file_path)

\* preprocess.py lines 252-258 with 181-196: the quantised map, and with
\* visualization (the default, which the loop keeps) its inverse next to it
write_depth_map(folder, file_path) ==
    Saved(Saved(folder, file_path), str_replace(file_path, png, inverse_png))

\* preprocess.py lines 260-269
write_confidence_map(folder, file_path) == Saved(folder, file_path)

\* preprocess.py lines 272-291
write_cam(folder, file) == Saved(folder, file)

\* test.py lines 297-313: the folder after one result was saved
SaveResult(folder, out_index) ==
    LET f1 == Saved(folder, init_depth_map_path(out_index))
        f2 == Saved(f1, prob_map_path(out_index))
        f3 == write_depth_map(f2, depth_png(out_index))
        f4 == write_confidence_map(f3, prob_png(out_index))
        f5 == Saved(f4, out_ref_image_path(out_index))
    IN  write_cam(f5, out_ref_cam_path(out_index))

\* what the loop holds between two sess.run calls
NoResult == [out_index |-> -1]

\* a run of mvsnet_pipeline(mvs_list) starts with the generator created
\* and the output folder empty
\* the configurations of the runs: two views per sample
PipeFlags == {f \in GenFlags : f.view_num = 2}

InitPipe ==
    /\ arrays = <<>> /\ lists = <<>>
    /\ FLAGS \in PipeFlags
    /\ py \in {2, 3}
    /\ sample_list \in SeqsUpTo(Samples, MaxSamples)
    /\ pc = "suspended" /\ cursor = 0 /\ locals = NoLocals
    /\ counter = 0 /\ emitted = NoBatch
    /\ buffer = <<>> /\ pushed = 0 /\ step = 0 /\ output_folder = {}
    /\ fetched = NoResult
    /\ IdleCam /\ IdlePfm /\ IdleLoss /\ IdleCrop

\* the prefetch stage asks the generator for the next element while it
\* holds fewer than buffer_size batches
\* a prefetch stage that asks for more while it holds buffer_size batches
HasRoom_whenFull(buf) == Len(buf) <= buffer_size

\* the prefetch stage asks for an element only while it holds fewer than
\* buffer_size batches
HasRoom(buf) == Len(buf) < buffer_size

PrefetchPull ==
    /\ counter = pushed /\ HasRoom(buffer)
    /\ GenPull

\* the element the generator yielded is batched (batch size 1) and put
\* into the prefetch buffer
PrefetchPush ==
    /\ pc = "suspended" /\ counter > pushed
    /\ buffer' = Append(buffer, emitted)
    /\ pushed' = pushed + 1
    /\ UNCHANGED <<step, output_folder, fetched>>
    /\ UNCHANGED heapVars /\ UNCHANGED genVars
    /\ UNCHANGED camVars /\ UNCHANGED pfmVars /\ UNCHANGED lossVars
    /\ UNCHANGED cropVars

\* lines 269-275: sess.run takes the next batch and returns its result
PipeRun ==
    /\ step < Len(sample_list) /\ fetched = NoResult
    /\ buffer # <<>>
    /\ fetched' = [out_index |-> Head(buffer).image_index]
    /\ buffer' = Tail(buffer)
    /\ UNCHANGED <<pushed, step, output_folder>>
    /\ UNCHANGED heapVars /\ UNCHANGED genVars
    /\ UNCHANGED camVars /\ UNCHANGED pfmVars /\ UNCHANGED lossVars
    /\ UNCHANGED cropVars

\* lines 280-314: the result is saved and the iteration ends
PipeSave ==
    /\ fetched # NoResult
    /\ output_folder' = SaveResult(output_folder, fetched.out_index)
    /\ step' = step + 1
    /\ fetched' = NoResult
    /\ UNCHANGED <<buffer, pushed>>
    /\ UNCHANGED heapVars /\ UNCHANGED genVars
    /\ UNCHANGED camVars /\ UNCHANGED pfmVars /\ UNCHANGED lossVars
    /\ UNCHANGED cropVars

NextPipe ==
    \/ PrefetchPull \/ GenLoad \/ GenResizeScale \/ GenScale \/ GenCrop
    \/ GenCenter \/ GenSampleCams \/ GenYield
    \/ PrefetchPush \/ PipeRun \/ PipeSave

SpecPipe == InitPipe /\ [][NextPipe]_vars

\* the IDs of the results saved so far
SavedIds == {ImageIndex(sample_list[i]) : i \in 1..step}

\* the six names the loop builds for one result
SixArtifacts(i) ==
    {init_depth_map_path(i), prob_map_path(i), out_ref_image_path(i),
     out_ref_cam_path(i), prob_png(i), depth_png(i)}

SevenArtifacts(i) ==
    SixArtifacts(i) \cup {OutPath(i, <<"_", "d", "e", "p", "t", "h">>
                                        \o inverse_png)}

\* C17 as stated: after every iteration of the loop the output folder
\* holds, for each result saved so far, the six files N_init.pfm,
\* N_prob.pfm, N.jpg, N.txt, N_prob.png and N_depth.png of its ID, and
\* nothing else.
C17_SixArtifactsPerResult ==
    fetched = NoResult
    => output_folder = UNION {SixArtifacts(i) : i \in SavedIds}

\* C17 amended: the files of a result are those six and N_depth_inverse.png
C17_SevenArtifactsPerResult ==
    fetched = NoResult
    => output_folder = UNION {SevenArtifacts(i) : i \in SavedIds}

\* a run over two samples with different IDs has ended
C17_Witness ==
    /\ step = 2 /\ Len(sample_list) = 2
    /\ ImageIndex(sample_list[1]) # ImageIndex(sample_list[2])
    /\ Cardinality(output_folder) = 14

(***************************************************************************)
(* The crop of the views (checked over the crop step of the generator).    *)
(***************************************************************************)
\* the smallest multiple of base that is >= size
NextMultiple(size, base) == ((size + base - 1) \div base) * base

\* the views as they enter crop_mvs_input and as they leave it
CropStep == pc = "crop" /\ pc' = "center"
ViewIn(k) == lists[locals.scaled_input_images][k]
ViewOut(k) == lists'[locals.scaled_input_images][k]
CamIn(k) == arrays[lists[locals.scaled_input_cams][k]]
CamOut(k) == arrays'[lists'[locals.scaled_input_cams][k]]

CeilHalf(a) == -((-a) \div 2)

\* C19: for every view crop_mvs_input returns an image of the crop size
\* picked whose pixel (r, c) is the input's pixel (r + originY,
\* c + originX), origin = ceil((native - crop size) / 2) per axis, and the
\* camera's cx and cy are reduced by originX and originY.
C19_SliceAndCameraShiftAgree ==
    [][CropStep =>
        \A k \in 1..FLAGS.view_num :
            LET cw == CropWindow(ViewIn(k))
                originY == CeilHalf(ViewIn(k).h - cw.new_h)
                originX == CeilHalf(ViewIn(k).w - cw.new_w)
            IN  /\ ViewOut(k).h = cw.new_h
                /\ ViewOut(k).w = cw.new_w
                /\ ViewOut(k).r0 = ViewIn(k).r0 + originY
                /\ ViewOut(k).c0 = ViewIn(k).c0 + originX
                /\ Cx(CamOut(k)) = RSub(Cx(CamIn(k)), RInt(originX))
                /\ Cy(CamOut(k)) = RSub(Cy(CamIn(k)), RInt(originY))]_vars

(***************************************************************************)
(* The views of a batch.                                                   *)
(***************************************************************************)
\* the slots of the current sample that were filled with the reference view
PaddedSlots == (Len(Data) + 1)..FLAGS.view_num

\* C20: every batch the generator yields has FLAGS.view_num views; for a
\* sample that lists fewer, the image and the camera of each padded slot
\* equal those of slot 0, as loaded and in the batch, the depth-sampling
\* count included.
C20_PaddedViewsRepeatTheReference ==
    /\ pc = "resize"
       => /\ Len(lists[locals.images]) = FLAGS.view_num
          /\ Len(lists[locals.cams]) = FLAGS.view_num
          /\ \A k \in PaddedSlots :
                /\ lists[locals.images][k] = lists[locals.images][1]
                /\ arrays[lists[locals.cams][k]]
                      = arrays[lists[locals.cams][1]]
    /\ (pc = "suspended" /\ counter > 0)
       => /\ Len(emitted.scaled_images) = FLAGS.view_num
          /\ Len(emitted.centered_images) = FLAGS.view_num
          /\ Len(emitted.scaled_cams) = FLAGS.view_num
          /\ \A k \in PaddedSlots :
                /\ emitted.scaled_images[k] = emitted.scaled_images[1]
                /\ emitted.centered_images[k] = emitted.centered_images[1]
                /\ emitted.scaled_cams[k] = emitted.scaled_cams[1]
                /\ DepthCount(emitted.scaled_cams[k])
                      = DepthCount(emitted.scaled_cams[1])

(***************************************************************************)
(* Backpressure between the generator and the inference loop.              *)
(***************************************************************************)
\* the batches the inference loop has taken from the dataset
Pulled == step + (IF fetched = NoResult THEN 0 ELSE 1)

\* the generator is between a pull and the yield (or the end) it leads to
Building == pc \in {"load", "resize", "scale", "crop", "center", "sample",
                    "stack", "spinning"}

\* C21: at every moment of a run the generator has yielded at most one
\* batch beyond those the inference loop has taken, the buffer between
\* them holds at most one batch, and the generator is not building a
\* sample while a batch waits in the buffer.
C21_AtMostOneSampleAhead ==
    /\ counter <= Pulled + 1
    /\ Len(buffer) <= 1
    /\ Len(buffer) + (counter - pushed) <= 1
    /\ Building => (buffer = <<>> /\ counter = Pulled)

\* a batch waits in the buffer while the loop is saving the one before it
C21_Witness ==
    /\ Len(buffer) = 1 /\ fetched # NoResult /\ step = 0
    /\ counter = 2 /\ pc = "suspended"

(***************************************************************************)
(* Progress of the generator.  Once pulled, the body of the for loop runs  *)
(* on by itself from statement to statement (file reads return) until it   *)
(* yields, raises or exits, so the steps that move pc on from a statement  *)
(* of the body are weakly fair; the consumer is free never to pull, and    *)
(* an empty for loop inside while True has no statement to move on to.     *)
(***************************************************************************)
\* the positions inside the body of the for loop, lines 81-173
Running == {"load", "resize", "scale", "crop", "center", "sample", "stack"}

\* control leaves a statement of the body (every action of Next at such a
\* position is enabled and changes pc)
RunsOn ==
    /\ pc \in Running
    /\ pc' \in Running \cup {"suspended", "raised", "exited"}
    /\ pc' # pc

SpecFair == Init /\ [][Next]_vars /\ WF_pc(RunsOn)

\* C22: for a sample list of any length every pull on the generator
\* eventually completes: it yields a batch, raises, or ends the process;
\* the generator never runs for ever without yielding.
C22_EveryPullCompletes ==
    Building ~> (pc \in {"suspended", "raised", "exited"})

(***************************************************************************)
(* crop_mvs_input called with a ground-truth depth map, as the training    *)
(* input does: views of any sizes, a depth map of the reference view's     *)
(* size, one call.                                                         *)
(***************************************************************************)
MaxViews == 3         \* most views of a sample handed to the call

\* lines 100-103: the depth map is sliced with start_h, finish_h, start_w
\* and finish_w as the loop over the views left them
crop_mvs_input_depth(S, images, cams, depth_image) ==
    LET cw == CropWindow(S.lists[images][FLAGS.view_num])
    IN  [heap |-> crop_mvs_input_loop(S, images, cams, 0),
         images |-> images, cams |-> cams,
         depth_image |-> SliceImage(depth_image, cw.start_h, cw.finish_h,
                                    cw.start_w, cw.finish_w)]

ViewSizes == {<<768, 1024>>, <<600, 800>>, <<492, 655>>, <<300, 400>>}

NoCropOut == [exc |-> "pending", depth_image |-> Image(0, 0)]

InitCrop ==
    /\ FLAGS \in {Flags(n, box[1], box[2], Rat(1, 1), TRUE) :
                     n \in 1..MaxViews, box \in {<<384, 512>>, <<768, 1024>>}}
    /\ py \in {2, 3}
    /\ arrays = [k \in 1..FLAGS.view_num |->
                    load_cam(CamFile(0), FLAGS.interval_scale, NoneArg).cam]
    /\ \E sizes \in SeqsOfLen(ViewSizes, FLAGS.view_num) :
          /\ lists = <<[k \in 1..FLAGS.view_num |->
                           Image(sizes[k][1], sizes[k][2])],
                       [k \in 1..FLAGS.view_num |-> k]>>
          /\ cropDepth = Image(sizes[1][1], sizes[1][2])
    /\ cropOut = NoCropOut
    /\ IdleCam /\ IdlePfm /\ IdleGen /\ IdlePipe /\ IdleLoss

CropCall ==
    /\ cropOut.exc = "pending"
    /\ LET r == crop_mvs_input_depth(Heap, 1, 2, cropDepth)
       IN  /\ arrays' = r.heap.arrays
           /\ lists' = r.heap.lists
           /\ cropOut' = [exc |-> "none", depth_image |-> r.depth_image]
    /\ UNCHANGED <<FLAGS, py, cropDepth>>
    /\ UNCHANGED camVars /\ UNCHANGED pfmVars /\ UNCHANGED genVars
    /\ UNCHANGED pipeVars /\ UNCHANGED lossVars

NextCrop == CropCall
SpecCrop == InitCrop /\ [][NextCrop]_vars

\* C23: the depth map crop_mvs_input returns was cut with the crop window
\* of the reference view (index 0): it has the size of the cropped
\* reference image and its pixel (r, c) is the pixel of the depth map
\* that lay under pixel (r, c) of the cropped reference image, whatever
\* the sizes of the views.
C23_DepthCroppedWithReferenceWindow ==
    cropOut.exc = "none"
    => LET ref == lists[1][1]
       IN  /\ cropOut.depth_image.h = ref.h
           /\ cropOut.depth_image.w = ref.w
           /\ cropOut.depth_image.r0 = ref.r0
           /\ cropOut.depth_image.c0 = ref.c0

(***************************************************************************)
(* Rejected writes of the PFM codec (checked under SpecPfm).               *)
(***************************************************************************)
\* write_pfm ended the call on pfmImage with an exception
WriteRejected == pfmPc = "init" /\ pfmPc' \notin {"init", "written"}

\* C24: a write_pfm call whose image is not float32, or whose shape is
\* none of HxW, HxWx1, HxWx3, raises, and what is at the path is what was
\* there before the call: no file is created, an existing file keeps all
\* its bytes; and no other call is rejected.
C24_RejectedWriteLeavesDestination ==
    [][/\ (pfmPc = "init" /\ pfmPc' # "init")
          => (WriteRejected
                <=> \/ pfmImage.dtype # "float32"
                    \/ ~(IsColorShape(pfmImage.shape)
                           \/ IsGreyShape(pfmImage.shape)))
       /\ WriteRejected
          => /\ pfmPc' = "Exception"
             /\ pfmFile' = pfmFile]_vars

\* a float32 array of a shape that is not allowed was rejected while a
\* file was at the path
C24_Witness ==
    /\ pfmPc = "Exception" /\ pfmFile = EarlierFile
    /\ pfmImage.dtype = "float32" /\ pfmImage.shape = <<2, 2, 2>>

====
